---- MODULE Spec2Model ----
(***************************************************************************)
(* babel-plugin-import-glob: the ImportDeclaration visitor that rewrites   *)
(* an import whose source is a glob pattern, and the derivation of the     *)
(* member identifiers from the matched paths.                              *)
(*                                                                         *)
(* A JavaScript string is a sequence of one-character strings, so that     *)
(* slicing, splitting, joining and regular-expression matching are         *)
(* computed as the code computes them.  null is the value Null.            *)
(***************************************************************************)
EXTENDS Integers, Sequences, FiniteSets, TLC

VARIABLES
    fs,            \* the files on disk, relative to the importing file's directory
    source,        \* node.source.value of the import declaration
    specifiers,    \* node.specifiers
    pc,            \* position inside the visitor
    pattern,       \* the pattern after the glob: prefix is stripped
    index,         \* indexFromImportSpecifier(specifiers)
    gm,            \* the GlobSync object: found, minimatch.set
    members,       \* generateMembers(gm, cwd, index)
    unique,        \* the names already seen by the uniqueness loop
    k,             \* the uniqueness loop's position in members
    replacement,   \* the statements handed to path.replaceWithMultiple
    replaced,      \* the number of calls of path.replaceWithMultiple
    error,         \* the message of the thrown error, or Null
    subpath,       \* memberify's argument (specification SpecMemberify)
    name           \* memberify's result   (specification SpecMemberify)

vars == <<fs, source, specifiers, pc, pattern, index, gm, members, unique, k,
          replacement, replaced, error, subpath, name>>

\* null, undefined: one-element tuples of a word, so that they differ from
\* every string (a tuple of single characters)
Null == <<"null">>

----------------------------------------------------------------------------
(* Bounds of the model *)

MaxFiles == 3
MaxSpecifiers == 2
MaxPieces == 2

----------------------------------------------------------------------------
(* Strings *)

Lower == <<"a","b","c","d","e","f","g","h","i","j","k","l","m",
           "n","o","p","q","r","s","t","u","v","w","x","y","z">>
Upper == <<"A","B","C","D","E","F","G","H","I","J","K","L","M",
           "N","O","P","Q","R","S","T","U","V","W","X","Y","Z">>
Digits == <<"0","1","2","3","4","5","6","7","8","9">>

Range(s) == { s[i] : i \in 1..Len(s) }

IsLetter(c) == c \in Range(Lower) \cup Range(Upper)
IsDigit(c) == c \in Range(Digits)
IsAlnum(c) == IsLetter(c) \/ IsDigit(c)

\* String.prototype.toUpperCase on one character
toUpperCase(c) ==
    IF c \in Range(Lower)
    THEN Upper[CHOOSE i \in 1..Len(Lower) : Lower[i] = c]
    ELSE c

\* s.slice(from, to) for from >= 0: 0-based, end-exclusive, a negative end
\* counts from the end of the string
slice(s, from, to) ==
    LET end == IF to < 0 THEN (IF Len(s) + to < 0 THEN 0 ELSE Len(s) + to)
               ELSE IF to > Len(s) THEN Len(s) ELSE to
    IN SubSeq(s, from + 1, end)

startsWith(s, p) == Len(p) <= Len(s) /\ SubSeq(s, 1, Len(p)) = p

endsWith(s, p) == Len(p) <= Len(s) /\ SubSeq(s, Len(s) - Len(p) + 1, Len(s)) = p

\* s.split(sep) for a one-character separator: always at least one piece
RECURSIVE splitFrom(_, _, _, _)
splitFrom(s, sep, i, cur) ==
    IF i > Len(s) THEN <<cur>>
    ELSE IF s[i] = sep THEN <<cur>> \o splitFrom(s, sep, i + 1, <<>>)
    ELSE splitFrom(s, sep, i + 1, Append(cur, s[i]))

split(s, sep) == splitFrom(s, sep, 1, <<>>)

\* parts.join(sep) for a separator string
RECURSIVE join(_, _)
join(parts, sep) ==
    IF Len(parts) = 0 THEN <<>>
    ELSE IF Len(parts) = 1 THEN parts[1]
    ELSE parts[1] \o sep \o join(Tail(parts), sep)

Count(s, c) == Cardinality({ i \in 1..Len(s) : s[i] = c })

fileSeparator == "/"

----------------------------------------------------------------------------
(* identifierfy(name, {prefixReservedWords, prefixInvalidIdentifiers}) *)

\* esutils keyword.isReservedWordES6(id, true), on the words the model's
\* alphabet of file names can spell
ReservedWords ==
    { <<"n","e","w">>, <<"i","n">>, <<"i","f">>, <<"d","o">>,
      <<"f","o","r">>, <<"v","a","r">>, <<"l","e","t">> }

isReservedWord(id) == id \in ReservedWords

IsIdentifierStart(c) == IsLetter(c) \/ c = "_" \/ c = "$"
IsIdentifierPart(c) == IsIdentifierStart(c) \/ IsDigit(c)

\* esutils keyword.isIdentifierNameES6(id)
isIdentifierName(id) ==
    /\ Len(id) > 0
    /\ IsIdentifierStart(id[1])
    /\ \A i \in 2..Len(id) : IsIdentifierPart(id[i])

isValidIdentifier(id) == ~isReservedWord(id) /\ isIdentifierName(id)

\* The rewriting loop: state is <<intermediate, prevWasInvalid>>
RECURSIVE identifierfyLoop(_, _, _, _)
identifierfyLoop(nm, i, intermediate, prevWasInvalid) ==
    IF i > Len(nm) THEN intermediate
    ELSE LET char == IF prevWasInvalid /\ intermediate # <<"_">>
                     THEN toUpperCase(nm[i]) ELSE nm[i]
         IN IF isValidIdentifier(Append(intermediate, char))
            THEN identifierfyLoop(nm, i + 1, Append(intermediate, char), FALSE)
            ELSE identifierfyLoop(nm, i + 1, intermediate, TRUE)

\* the end of identifierfy: what is returned for the rewritten name
identifierfyResult(intermediate, prefixReservedWords, prefixInvalidIdentifiers) ==
    IF intermediate = <<"_">> THEN Null
    ELSE IF isValidIdentifier(Tail(intermediate)) THEN Tail(intermediate)
    ELSE IF prefixInvalidIdentifiers /\ prefixReservedWords THEN intermediate
    ELSE IF \/ (~isIdentifierName(Tail(intermediate)) /\ ~prefixInvalidIdentifiers)
            \/ (isReservedWord(Tail(intermediate)) /\ ~prefixReservedWords)
         THEN Tail(intermediate)
         ELSE intermediate

identifierfy(nm, prefixReservedWords, prefixInvalidIdentifiers) ==
    identifierfyResult(identifierfyLoop(nm, 1, <<"_">>, FALSE),
                       prefixReservedWords, prefixInvalidIdentifiers)

----------------------------------------------------------------------------
(* memberify(subpath) *)

\* the for loop of memberify: ids collected so far, early return of null
RECURSIVE memberifyLoop(_, _, _, _)
\* memberifyStep, going on to the next piece when a piece has no identifier
memberifyStep_skipsNull(pieces, prefixReservedWords, i, ids, id) ==
    IF id = Null THEN memberifyLoop(pieces, prefixReservedWords, i + 1, ids)
    ELSE memberifyLoop(pieces, prefixReservedWords, i + 1, Append(ids, id))

memberifyStep(pieces, prefixReservedWords, i, ids, id) ==
    IF id = Null THEN Null
    ELSE memberifyLoop(pieces, prefixReservedWords, i + 1, Append(ids, id))

memberifyLoop(pieces, prefixReservedWords, i, ids) ==
    IF i > Len(pieces) THEN join(ids, <<"$">>)
    ELSE memberifyStep(pieces, prefixReservedWords, i, ids,
                       identifierfy(pieces[i], prefixReservedWords, i = 1))

\* memberifyPieces, prefixing reserved words whatever the number of pieces
memberifyPieces_alwaysPrefixes(pieces) == memberifyLoop(pieces, TRUE, 1, <<>>)

memberifyPieces(pieces) == memberifyLoop(pieces, Len(pieces) = 1, 1, <<>>)

memberify(sp) == memberifyPieces(split(sp, fileSeparator))

----------------------------------------------------------------------------
(* Regular expressions                                                     *)
(*                                                                         *)
(* The source of a RegExp is a sequence of tokens, one per syntactic unit  *)
(* of the source text, in the order of the text: a literal character "a",  *)
(* an escaped character "\\.", the any-character ".", the class "[^/]",    *)
(* the openers "(", "(?:", "(?=", "(?!", the closer ")", "|", "^", "$" and *)
(* the quantifiers "?", "*?", "+?".  Concatenating sources concatenates    *)
(* token sequences.  Matching is backtracking in the priority order of the *)
(* ECMAScript semantics: each matcher returns the list of the states it    *)
(* can end in, most preferred first.                                       *)
(***************************************************************************)

Undefined == <<"undefined">>

Openers == {"(", "(?:", "(?=", "(?!"}
Quantifiers == {"?", "*?", "+?"}

\* index of the ")" that closes the opener at position i
RECURSIVE closeFrom(_, _, _)
closeFrom(re, j, depth) ==
    IF j > Len(re) THEN Len(re) + 1
    ELSE IF re[j] \in Openers THEN closeFrom(re, j + 1, depth + 1)
    ELSE IF re[j] = ")" THEN (IF depth = 0 THEN j ELSE closeFrom(re, j + 1, depth - 1))
    ELSE closeFrom(re, j + 1, depth)

closeOf(re, i) == closeFrom(re, i + 1, 0)

\* the position after the atom that starts at i, its quantifier excluded
atomEnd(re, i) == IF re[i] \in Openers THEN closeOf(re, i) + 1 ELSE i + 1

\* the number of the capture group opened at position i
groupNumber(re, i) == Cardinality({ j \in 1..i : re[j] = "(" })

groupCount(re) == groupNumber(re, Len(re))

\* the ranges <<first, last>> of the alternatives of re[i..j], split on the
\* "|" that are not nested in a group
RECURSIVE altsFrom(_, _, _, _)
altsFrom(re, from, i, j) ==
    IF i > j THEN << <<from, j>> >>
    ELSE IF re[i] \in Openers THEN altsFrom(re, from, closeOf(re, i) + 1, j)
    ELSE IF re[i] = "|" THEN << <<from, i - 1>> >> \o altsFrom(re, i + 1, i + 1, j)
    ELSE altsFrom(re, from, i + 1, j)

\* the characters regExpEscape and escapeStringRegexp put a backslash before
EscapedChars == {".", "-", "$", "/", "(", ")", "*", "+", "?", "[", "]",
                 "{", "}", ",", "^", "|", "#", "\\"}

\* the token of the escaped character c: the two characters \ and c
escapeToken(c) == "\\" \o c

EscapeTokens == { escapeToken(c) : c \in EscapedChars }

\* one character of the string against one single-character token
charMatches(tok, c, ci) ==
    IF tok = "." THEN TRUE
    ELSE IF tok = "[^/]" THEN c # "/"
    ELSE IF tok \in EscapeTokens THEN tok = escapeToken(c)
    ELSE IF ci THEN toUpperCase(tok) = toUpperCase(c)
    ELSE tok = c

RECURSIVE matchSeq(_, _, _, _)
RECURSIVE matchAlts(_, _, _, _)
RECURSIVE matchEach(_, _, _, _, _)
RECURSIVE matchLazyStar(_, _, _, _)
RECURSIVE starEach(_, _, _, _, _)

\* the results of a capture group: the group's span is recorded
captured(inner, g, from) ==
    [n \in 1..Len(inner) |->
        [pos |-> inner[n].pos,
         caps |-> [inner[n].caps EXCEPT ![g] = <<from, inner[n].pos>>]]]

\* the results of a lookahead: nothing is consumed
lookedAhead(inner, st, positive) ==
    IF positive
    THEN (IF Len(inner) > 0 THEN << [pos |-> st.pos, caps |-> inner[1].caps] >> ELSE <<>>)
    ELSE (IF Len(inner) > 0 THEN <<>> ELSE <<st>>)

\* the atom re[i .. e-1] without its quantifier, from state st
matchAtom(cx, i, e, st) ==
    IF cx.re[i] = "(" THEN
        captured(matchAlts(cx, altsFrom(cx.re, i + 1, i + 1, e - 2), 1, st),
                 groupNumber(cx.re, i), st.pos)
    ELSE IF cx.re[i] = "(?:" THEN
        matchAlts(cx, altsFrom(cx.re, i + 1, i + 1, e - 2), 1, st)
    ELSE IF cx.re[i] \in {"(?=", "(?!"} THEN
        lookedAhead(matchAlts(cx, altsFrom(cx.re, i + 1, i + 1, e - 2), 1, st),
                    st, cx.re[i] = "(?=")
    ELSE IF cx.re[i] = "^" THEN (IF st.pos = 1 THEN <<st>> ELSE <<>>)
    ELSE IF cx.re[i] = "$" THEN (IF st.pos = Len(cx.s) + 1 THEN <<st>> ELSE <<>>)
    ELSE IF st.pos <= Len(cx.s) /\ charMatches(cx.re[i], cx.s[st.pos], cx.ci)
         THEN << [st EXCEPT !.pos = st.pos + 1] >>
         ELSE <<>>

\* X*? : first no iteration, then one more iteration and again; an iteration
\* that consumes nothing is rejected
matchLazyStar(cx, i, e, st) ==
    <<st>> \o starEach(cx, i, e, matchAtom(cx, i, e, st), st.pos)

starEach(cx, i, e, rs, from) ==
    IF Len(rs) = 0 THEN <<>>
    ELSE (IF rs[1].pos = from THEN <<>> ELSE matchLazyStar(cx, i, e, rs[1]))
         \o starEach(cx, i, e, Tail(rs), from)

\* the quantifier that follows the atom ending before e, or ""
quantifierAt(re, e) == IF e <= Len(re) /\ re[e] \in Quantifiers THEN re[e] ELSE ""

\* the atom at i with its quantifier q; e is the position after the atom
matchQuantified(cx, i, e, q, st) ==
    IF q = "?" THEN matchAtom(cx, i, e, st) \o <<st>>
    ELSE IF q = "*?" THEN matchLazyStar(cx, i, e, st)
    ELSE IF q = "+?" THEN starEach(cx, i, e, matchAtom(cx, i, e, st), st.pos)
    ELSE matchAtom(cx, i, e, st)

\* the atom at i, which ends before e, and then the rest of re[..j]
matchFrom(cx, i, e, q, j, st) ==
    matchEach(cx, IF q = "" THEN e ELSE e + 1, j, matchQuantified(cx, i, e, q, st), 1)

\* the concatenation re[i..j] from state st
matchSeq(cx, i, j, st) ==
    IF i > j THEN <<st>>
    ELSE matchFrom(cx, i, atomEnd(cx.re, i),
                   quantifierAt(cx.re, atomEnd(cx.re, i)), j, st)

\* continue with re[i..j] from each of the states rs[n..], in order
matchEach(cx, i, j, rs, n) ==
    IF n > Len(rs) THEN <<>>
    ELSE matchSeq(cx, i, j, rs[n]) \o matchEach(cx, i, j, rs, n + 1)

\* the alternatives alts[n..] from state st, in order
matchAlts(cx, alts, n, st) ==
    IF n > Len(alts) THEN <<>>
    ELSE matchSeq(cx, alts[n][1], alts[n][2], st) \o matchAlts(cx, alts, n + 1, st)

\* the captures of a successful match, as strings
capturesOf(s, caps) ==
    [g \in 1..Len(caps) |->
        IF caps[g] = <<0, 0>> THEN Undefined ELSE SubSeq(s, caps[g][1], caps[g][2] - 1)]

\* the first match that starts at position p or later
RECURSIVE execFrom(_, _)
execResult(cx, p, rs) ==
    IF Len(rs) > 0 THEN capturesOf(cx.s, rs[1].caps) ELSE execFrom(cx, p + 1)

execFrom(cx, p) ==
    IF p > Len(cx.s) + 1 THEN Null
    ELSE execResult(cx, p,
            matchAlts(cx, altsFrom(cx.re, 1, 1, Len(cx.re)), 1,
                      [pos |-> p, caps |-> [g \in 1..groupCount(cx.re) |-> <<0, 0>>]]))

\* str.match(new RegExp(re, flags)): Null, or the captures match[1], match[2], ...
match(str, re, ci) == execFrom([re |-> re, s |-> str, ci |-> ci], 1)

test(str, re, ci) == match(str, re, ci) # Null

----------------------------------------------------------------------------
(* path.resolve and path.relative, on '/'-separated paths *)

\* the importing file's directory, as absolute path components
cwd == << <<"w">> >>

\* path.normalize on components: "." and empty components dropped, ".." pops
RECURSIVE normalizeComps(_, _)
normalizeComps(comps, acc) ==
    IF Len(comps) = 0 THEN acc
    ELSE IF comps[1] = <<".">> \/ comps[1] = <<>> THEN normalizeComps(Tail(comps), acc)
    ELSE IF comps[1] = <<".", ".">>
         THEN normalizeComps(Tail(comps),
                             IF Len(acc) = 0 THEN acc ELSE SubSeq(acc, 1, Len(acc) - 1))
    ELSE normalizeComps(Tail(comps), Append(acc, comps[1]))

\* resolve, joining the paths without normalising the result
resolve_joins(dir, file) == dir \o split(file, "/")

\* path.resolve(dir, file): absolute components
resolve(dir, file) ==
    IF Len(file) > 0 /\ file[1] = "/" THEN normalizeComps(split(file, "/"), <<>>)
    ELSE normalizeComps(dir \o split(file, "/"), <<>>)

RECURSIVE commonLen(_, _)
commonLen(a, b) ==
    IF Len(a) = 0 \/ Len(b) = 0 \/ a[1] # b[1] THEN 0
    ELSE 1 + commonLen(Tail(a), Tail(b))

\* path.relative(from, to) on absolute components
relative(from, to) ==
    LET c == commonLen(from, to)
        ups == [i \in 1..(Len(from) - c) |-> <<".", ".">>]
    IN join(ups \o SubSeq(to, c + 1, Len(to)), <<"/">>)

\* rp, handing the path out as glob reported it
rp_asReported(file) == file

\* rp in generateMembers
rp(file) == <<".", "/">> \o relative(cwd, resolve(cwd, file))

----------------------------------------------------------------------------
(* The glob primitive: minimatch's pattern set and GlobSync's found list *)

Str(v) == [type |-> "string", value |-> v]
GLOBSTAR == [type |-> "globstar"]
\* a part that minimatch compiled to a RegExp: _src is its source without the
\* anchors, source the source of the RegExp object
Re(src) == [type |-> "regexp", _src |-> src, source |-> <<"^">> \o src \o <<"$">>]

isString(p) == p.type = "string"

\* minimatch's translation of '*' at the start of a path portion
mmStar == <<"(?!", "\\.", ")", "(?=", ".", ")", "[^/]", "*?">>

\* does the path portion comps[j..] satisfy the pattern parts[i..]
\* (minimatch matchOne; a globstar swallows portions that do not start with a dot)
RECURSIVE matchOne(_, _, _, _)
matchOne(parts, i, comps, j) ==
    IF i > Len(parts) THEN j > Len(comps)
    ELSE IF parts[i].type = "globstar" THEN
        \/ matchOne(parts, i + 1, comps, j)
        \/ /\ j <= Len(comps)
           /\ ~(Len(comps[j]) > 0 /\ comps[j][1] = ".")
           /\ matchOne(parts, i, comps, j + 1)
    ELSE IF j > Len(comps) THEN FALSE
    ELSE IF parts[i].type = "string" THEN
        comps[j] = parts[i].value /\ matchOne(parts, i + 1, comps, j + 1)
    ELSE test(comps[j], parts[i].source, FALSE) /\ matchOne(parts, i + 1, comps, j + 1)

minimatchMatch(set, file) ==
    \E n \in 1..Len(set) : matchOne(set[n], 1, split(file, "/"), 1)

\* hasMagic, taking every path that is not empty for a pattern
hasMagic_anyPath(pat) == Len(pat.text) > 0

\* glob.hasMagic(pattern), from the pattern's minimatch set
hasMagic(pat) ==
    /\ Len(pat.text) > 0
    /\ \/ Len(pat.set) > 1
       \/ \E j \in 1..Len(pat.set[1]) : ~isString(pat.set[1][j])

\* the order of GlobSync's result (alphasort: localeCompare)
CharOrder == <<"_", "-", ".", "/", "$">> \o Digits \o Lower

charRank(c) ==
    LET lc == IF c \in Range(Upper)
              THEN Lower[CHOOSE i \in 1..Len(Upper) : Upper[i] = c] ELSE c
    IN CHOOSE i \in 1..Len(CharOrder) : CharOrder[i] = lc

RECURSIVE alphaLess(_, _)
alphaLess(a, b) ==
    IF Len(b) = 0 THEN FALSE
    ELSE IF Len(a) = 0 THEN TRUE
    ELSE IF charRank(a[1]) # charRank(b[1]) THEN charRank(a[1]) < charRank(b[1])
    ELSE alphaLess(Tail(a), Tail(b))

RECURSIVE alphasort(_)
alphasort(paths) ==
    IF paths = {} THEN <<>>
    ELSE LET first == CHOOSE x \in paths : \A y \in paths \ {x} : alphaLess(x, y)
         IN <<first>> \o alphasort(paths \ {first})

\* the directories that exist because a file lies in them
dirsOf(file) ==
    LET comps == split(file, "/")
    IN { join(SubSeq(comps, 1, n), <<"/">>) : n \in 1..(Len(comps) - 1) }

entries(files) == files \cup UNION { dirsOf(f) : f \in files }

\* the way the pattern walks from cwd to an entry: the pattern's leading "."
\* and "../<cwd's name>" portions are kept in the path glob reports
walkPrefix(parts) ==
    IF Len(parts) >= 1 /\ isString(parts[1]) /\ parts[1].value = <<".">>
    THEN <<".", "/">>
    ELSE IF /\ Len(parts) >= 2 /\ isString(parts[1]) /\ isString(parts[2])
            /\ parts[1].value = <<".", ".">> /\ parts[2].value = cwd[Len(cwd)]
    THEN <<".", ".", "/">> \o cwd[Len(cwd)] \o <<"/">>
    ELSE <<>>

\* GlobSync(pattern, {cwd, strict: true}): the sorted matches and the minimatch set
GlobSync(pat, files) ==
    LET hits == { walkPrefix(pat.set[n]) \o e : n \in 1..Len(pat.set), e \in entries(files) }
    IN [found |-> alphasort({ h \in hits : minimatchMatch(pat.set, h) }),
        minimatch |-> [set |-> pat.set,
                       options |-> [noglobstar |-> FALSE, dot |-> FALSE, nocase |-> FALSE]]]

----------------------------------------------------------------------------
(* common-path-prefix and common-extname *)

\* the directory components of a path: its base component removed
getDirectoryComponents(path) ==
    LET comps == split(path, "/") IN SubSeq(comps, 1, Len(comps) - 1)

RECURSIVE commonComponents(_, _)
commonComponents(prefix, paths) ==
    IF Len(paths) = 0 THEN prefix
    ELSE commonComponents(
            SubSeq(prefix, 1, commonLen(prefix, getDirectoryComponents(paths[1]))),
            Tail(paths))

\* commonPathPrefix(paths): the directories all paths share, with the
\* trailing separator, or the empty string
commonPathPrefix(paths) ==
    IF Len(paths) = 0 \/ Count(paths[1], "/") = 0 THEN <<>>
    ELSE LET prefix == commonComponents(getDirectoryComponents(paths[1]), Tail(paths))
         IN IF Len(prefix) = 0 THEN <<>> ELSE join(prefix, <<"/">>) \o <<"/">>

Reverse(s) == [i \in 1..Len(s) |-> s[Len(s) + 1 - i]]

\* the extensions of a path's base component, last one first
extensionsOf(path) ==
    LET comps == split(path, "/")
        parts == split(comps[Len(comps)], ".")
    IN Reverse(Tail(parts))

RECURSIVE commonExtensions(_, _)
commonExtensions(common, paths) ==
    IF Len(paths) = 0 THEN common
    ELSE commonExtensions(SubSeq(common, 1, commonLen(common, extensionsOf(paths[1]))),
                          Tail(paths))

\* commonExtname(paths): the (compound) extension all paths share, or the
\* empty string
commonExtname(paths) ==
    IF Len(paths) = 0 THEN <<>>
    ELSE LET common == Reverse(commonExtensions(extensionsOf(paths[1]), Tail(paths)))
         IN IF Len(common) = 0 THEN <<>> ELSE <<".">> \o join(common, <<".">>)

----------------------------------------------------------------------------
(* generateMembers(gm, cwd, index): src/src/index.js *)

\* the marker of a TypeError raised by the code itself (a null match
\* dereferenced, a method called on undefined)
TypeError == <<"TypeError">>

star == <<"[^/]", "*?">>
twoStarDot == <<"(?:", "(?!", "(?:", "/", "|", "^", ")", "(?:", "\\.", "|", "\\.",
                "\\.", ")", "(", "$", "|", "/", ")", ")", ".", ")", "*?">>
twoStarNoDot == <<"(?:", "(?!", "(?:", "/", "|", "^", ")", "\\.", ")", ".", ")", "*?">>

RegExpEscapeChars == {"-", "[", "]", "{", "}", "(", ")", "*", "+", "?", ".", ",",
                      "\\", "^", "$", "|", "#", " "}

regExpEscape(s) ==
    [i \in 1..Len(s) |-> IF s[i] \in RegExpEscapeChars THEN escapeToken(s[i]) ELSE s[i]]

\* the expression of one part of the pattern (the callback of ps.map)
indexedPart(p, twoStar) ==
    IF p = GLOBSTAR THEN twoStar
    ELSE IF isString(p) THEN regExpEscape(p.value)
    ELSE <<"(">> \o p._src \o <<")">>

\* ps.map(...).join('/') of the indexed expression
indexedParts(ps, twoStar) ==
    join([n \in 1..Len(ps) |-> indexedPart(ps[n], twoStar)], <<"/">>)

\* one element of found.map in generateMembers; sub is the text memberify gets
memberOf(f, sub) ==
    [file |-> f, relative |-> rp(f),
     name |-> IF sub = TypeError THEN TypeError ELSE memberify(sub)]

\* the result of found.map: the array, unless the callback threw a TypeError
orThrow(ms) ==
    [threw |-> \E n \in 1..Len(ms) : ms[n].name = TypeError, members |-> ms]

\* matchAt, giving the whole match whatever the index
matchAt_whole(f, m, i) ==
    IF m = Null THEN TypeError ELSE f

\* m[i] of a match result m of f; index 0 is the whole match, which is f
\* because the expression is anchored
matchAt(f, m, i) ==
    IF m = Null THEN TypeError
    ELSE IF i = 0 THEN f
    ELSE IF i > Len(m) THEN Undefined
    ELSE m[i]

\* memberify(p.slice(0, p.length - suffix)), p a capture
indexedMember(f, q, suffix) ==
    memberOf(f, IF q = TypeError \/ q = Undefined THEN TypeError
                ELSE slice(q, 0, Len(q) - suffix))

\* indexedMembers, cutting the shared extension off every capture
indexedMembers_alwaysCuts(found, ps, regexp, flags, ix, suffix) ==
    orThrow([n \in 1..Len(found) |->
        indexedMember(found[n], matchAt(found[n], match(found[n], regexp, flags), ix + 1),
                      suffix)])

\* lines 33-55: the index is clamped and the selected capture is memberified
indexedMembers(found, ps, regexp, flags, ix, suffix) ==
    IF ~isString(ps[Len(ps)]) /\ ix = Cardinality({ n \in 1..Len(ps) : ~isString(ps[n]) }) - 1
    THEN orThrow([n \in 1..Len(found) |->
            indexedMember(found[n], matchAt(found[n], match(found[n], regexp, flags), ix + 1),
                          suffix)])
    ELSE orThrow([n \in 1..Len(found) |->
            indexedMember(found[n], matchAt(found[n], match(found[n], regexp, flags), ix + 1),
                          0)])

\* lines 23-32: the expression of the indexed request
indexedRegExp(ps, options) ==
    <<"^", "(?:">>
    \o indexedParts(ps, <<"(">> \o (IF options.noglobstar THEN star
                                    ELSE IF options.dot THEN twoStarDot
                                    ELSE twoStarNoDot) \o <<")">>)
    \o <<")", "$">>

\* clampIndex, keeping the requested index
clampIndex_none(idx, last) == idx

\* lines 35-37: an index past the last dynamic part becomes the last
clampIndex(idx, last) == IF idx > last THEN last ELSE idx

\* prefixedMembers, leaving out the matches memberify has no name for
prefixedMembers_skipsUnnamed(found, prefix, suffix) ==
    orThrow(SelectSeq([n \in 1..Len(found) |->
                          memberOf(found[n], slice(found[n], prefix, Len(found[n]) - suffix))],
                      LAMBDA m : m.name # Null))

\* lines 56-64: the common prefix and extension are cut off each match
prefixedMembers(found, prefix, suffix) ==
    orThrow([n \in 1..Len(found) |->
        memberOf(found[n], slice(found[n], prefix, Len(found[n]) - suffix))])

\* generateMembers, cutting only the common extension in a request without index
generateMembers_keepsPrefix(g, idx) ==
    IF idx >= 0 THEN
        IF Len(g.minimatch.set) = 0 THEN [threw |-> TRUE, members |-> <<>>]
        ELSE indexedMembers(
                g.found, g.minimatch.set[1],
                indexedRegExp(g.minimatch.set[1], g.minimatch.options),
                g.minimatch.options.nocase,
                clampIndex(idx, Cardinality({ n \in 1..Len(g.minimatch.set[1]) :
                                                ~isString(g.minimatch.set[1][n]) }) - 1),
                Len(commonExtname(g.found)))
    ELSE prefixedMembers(g.found, 0, Len(commonExtname(g.found)))

generateMembers(g, idx) ==
    IF idx >= 0 THEN
        IF Len(g.minimatch.set) = 0 THEN [threw |-> TRUE, members |-> <<>>]
        ELSE indexedMembers(
                g.found, g.minimatch.set[1],
                indexedRegExp(g.minimatch.set[1], g.minimatch.options),
                g.minimatch.options.nocase,
                clampIndex(idx, Cardinality({ n \in 1..Len(g.minimatch.set[1]) :
                                                ~isString(g.minimatch.set[1][n]) }) - 1),
                Len(commonExtname(g.found)))
    ELSE prefixedMembers(g.found, Len(commonPathPrefix(g.found)), Len(commonExtname(g.found)))

----------------------------------------------------------------------------
(* The capture-based generateMembers(globObj, cwd): src/index.js           *)
(* An expression of the flattened set is a record: a string (isArray       *)
(* FALSE, one item) or an array of alternatives (isArray TRUE)             *)

\* match '**'
twoStar == <<"(?:", "(?!", "(?:", "/", "|", "^", ")", "\\.", ")", ".", ")", "*?">>

\* escape-string-regexp: /[|\\{}()[\]^$+*?.]/g
EscapeStringRegexpChars ==
    {"|", "\\", "{", "}", "(", ")", "[", "]", "^", "$", "+", "*", "?", "."}

escapeStringRegexp(s) ==
    [i \in 1..Len(s) |-> IF s[i] \in EscapeStringRegexpChars THEN escapeToken(s[i]) ELSE s[i]]

\* lodash.uniq: the first occurrence of each element, in order
RECURSIVE uniq(_)
uniq(xs) ==
    IF Len(xs) = 0 THEN <<>>
    ELSE LET init == uniq(SubSeq(xs, 1, Len(xs) - 1))
         IN IF \E n \in 1..(Len(xs) - 1) : xs[n] = xs[Len(xs)] THEN init
            ELSE Append(init, xs[Len(xs)])

\* the callback of set[0].map would raise a TypeError: an expansion has no
\* part at the index, or a part that is not of the kind of the first expansion's
flattenThrows(set) ==
    \/ Len(set) = 0
    \/ \E at \in 1..Len(set[1]) : \E n \in 1..Len(set) :
          /\ set[1][at] # GLOBSTAR
          /\ \/ at > Len(set[n])
             \/ isString(set[n][at]) # isString(set[1][at])
             \/ set[n][at] = GLOBSTAR

\* the alternatives of the strings at one index
flattenStrings(subExpressions) ==
    IF Len(subExpressions) = 1
    THEN [isArray |-> FALSE, items |-> subExpressions]
    ELSE [isArray |-> TRUE, items |-> subExpressions]

\* the callback of set[0].map
flattenAt(set, at) ==
    IF set[1][at] = GLOBSTAR THEN [isArray |-> TRUE, items |-> <<twoStar>>]
    ELSE IF isString(set[1][at])
    THEN flattenStrings(uniq([n \in 1..Len(set) |-> escapeStringRegexp(set[n][at].value)]))
    ELSE [isArray |-> TRUE,
          items |-> uniq([n \in 1..Len(set) |-> slice(set[n][at].source, 1, -1)])]

flattenSet(set) == [at \in 1..Len(set[1]) |-> flattenAt(set, at)]

joinExpression(expression) ==
    IF Len(expression) > 1 THEN <<"(?:">> \o join(expression, <<"|">>) \o <<")">>
    ELSE expression[1]

\* the length of expression.match(/(?:\\\.[A-Za-z0-9]+)*$/)[0]: the longest
\* run of \.<letters and digits> groups the expression ends with; e is the
\* position scanned from and run the number of letters and digits passed
RECURSIVE extensionLength(_, _, _)
extensionLength(expression, e, run) ==
    IF e = 0 THEN 0
    ELSE IF IsAlnum(expression[e]) THEN extensionLength(expression, e - 1, run + 1)
    ELSE IF expression[e] = escapeToken(".") /\ run > 0
         THEN run + 1 + extensionLength(expression, e - 1, 0)
    ELSE 0

\* the filenames and the extensions pushed for the expressions from n on
RECURSIVE splitFromExpression(_, _, _)
splitNext(expressions, n, acc, len) ==
    IF len > 0
    THEN splitFromExpression(expressions, n + 1,
            [filenames |-> Append(acc.filenames,
                                  SubSeq(expressions[n], 1, Len(expressions[n]) - len)),
             extensions |-> Append(acc.extensions,
                                   SubSeq(expressions[n], Len(expressions[n]) - len + 1,
                                          Len(expressions[n])))])
    ELSE splitFromExpression(expressions, n + 1,
            [acc EXCEPT !.filenames = Append(acc.filenames, expressions[n])])

splitFromExpression(expressions, n, acc) ==
    IF n > Len(expressions) THEN acc
    ELSE splitNext(expressions, n, acc,
                   extensionLength(expressions[n], Len(expressions[n]), 0))

\* splitExtensions, ignoring the extension of every expression
splitExtensions_keepsExtensions(expressions) ==
    [filenames |-> expressions, extensions |-> <<>>]

splitExtensions(expressions) ==
    splitFromExpression(expressions, 1, [filenames |-> <<>>, extensions |-> <<>>])

\* expressions.findIndex(Array.isArray) and findLastIndex, counted from 1;
\* 0 when no expression is an array
findIndex(expressions) ==
    IF \E n \in 1..Len(expressions) : expressions[n].isArray
    THEN CHOOSE n \in 1..Len(expressions) :
            expressions[n].isArray /\ \A o \in 1..(n - 1) : ~expressions[o].isArray
    ELSE 0

findLastIndex(expressions) ==
    IF \E n \in 1..Len(expressions) : expressions[n].isArray
    THEN CHOOSE n \in 1..Len(expressions) :
            expressions[n].isArray /\ \A o \in (n + 1)..Len(expressions) : ~expressions[o].isArray
    ELSE 0

\* lines 90-95: the expressions joined, the capture opened and closed
joinedExpression(expressions, n, captureStart, captureStop) ==
    (IF n = captureStart THEN <<"(">> ELSE <<>>)
    \o (IF expressions[n].isArray THEN joinExpression(expressions[n].items)
        ELSE expressions[n].items[1])
    \o (IF n = captureStop THEN <<")">> ELSE <<>>)

\* lines 90-103, the extensions split off the last expression or none
finalExpression(expressions, captureStart, captureStop, extensionExpression) ==
    <<"^">>
    \o join([n \in 1..Len(expressions) |->
                joinedExpression(expressions, n, captureStart, captureStop)], <<"/">>)
    \o (IF Len(extensionExpression) > 0 THEN joinExpression(extensionExpression) ELSE <<>>)
    \o <<"$">>

\* lines 83-88
splitLast(expressions, captureStart, captureStop, splitted) ==
    finalExpression([expressions EXCEPT ![captureStop].items = uniq(splitted.filenames)],
                    captureStart, captureStop, uniq(splitted.extensions))

capturedExpression(expressions, captureStart, captureStop) ==
    IF captureStop = Len(expressions)
    THEN splitLast(expressions, captureStart, captureStop,
                   splitExtensions(expressions[captureStop].items))
    ELSE finalExpression(expressions, captureStart, captureStop, <<>>)

expressionOf(expressions) ==
    capturedExpression(expressions, findIndex(expressions), findLastIndex(expressions))

makeSubpathExpression(set) == expressionOf(flattenSet(set))

\* match[1] of the match result of file
firstCapture(file, m) ==
    IF m = Null THEN TypeError
    ELSE IF Len(m) = 0 THEN Undefined
    ELSE m[1]

\* the callback of found.map in lines 109-117
capturedMember(file, sub) ==
    memberOf(file, IF sub = Undefined THEN TypeError ELSE sub)

capturedMembers(found, regexp) ==
    orThrow([n \in 1..Len(found) |->
                capturedMember(found[n], firstCapture(found[n], match(found[n], regexp, TRUE)))])

\* generateMembers of src/index.js
generateMembersByCapture(globObj) ==
    IF flattenThrows(globObj.minimatch.set) THEN [threw |-> TRUE, members |-> <<>>]
    ELSE capturedMembers(globObj.found, makeSubpathExpression(globObj.minimatch.set))

----------------------------------------------------------------------------
(* The recombining generateMembers(globObj, cwd): src/unnamed/part_002.    *)
(* A Set is the sequence of its elements in insertion order; a part is the *)
(* record {capture, optional, patterns}                                    *)

OPTIONAL == [type |-> "optional"]

\* set.reduce((length, patterns) => Math.max(length, patterns.length), 0)
maxLength(set) ==
    IF Len(set) = 0 THEN 0
    ELSE CHOOSE m \in { Len(set[n]) : n \in 1..Len(set) } :
            \A n \in 1..Len(set) : Len(set[n]) <= m

\* what the loop of lines 52-61 adds for one expansion at the position at,
\* counted from 1: its last pattern goes to the last position
addedAt(patterns, at, max) ==
    IF at < Len(patterns) THEN patterns[at]
    ELSE IF at < max THEN OPTIONAL
    ELSE patterns[Len(patterns)]

\* Set.prototype.add: strings are equal by value, GLOBSTAR and OPTIONAL are
\* one object each, every RegExp of the minimatch set is an object of its own
setAdd(acc, x) ==
    IF x.type # "regexp" /\ \E n \in 1..Len(acc) : acc[n] = x THEN acc
    ELSE Append(acc, x)

\* initial[at] after the first n expansions
RECURSIVE accumulate(_, _, _, _)
accumulate(set, at, max, n) ==
    IF n = 0 THEN <<>>
    ELSE setAdd(accumulate(set, at, max, n - 1), addedAt(set[n], at, max))

\* the callback of raw.filter(...).map
recombinedPattern(p) ==
    IF isString(p) THEN escapeStringRegexp(p.value) ELSE slice(p.source, 1, -1)

recombinedPatterns(raw) == [n \in 1..Len(raw) |-> recombinedPattern(raw[n])]

\* recombine, making the position of a globstar optional when an expansion
\* lacks it
recombine_optionalGlobstar(accumulated) ==
    IF \E n \in 1..Len(accumulated) : accumulated[n] = GLOBSTAR
    THEN [capture |-> TRUE,
          optional |-> \E n \in 1..Len(accumulated) : accumulated[n] = OPTIONAL,
          patterns |-> <<twoStar>>]
    ELSE [capture |-> Len(accumulated) > 1 \/ ~isString(accumulated[1]),
          optional |-> \E n \in 1..Len(accumulated) : accumulated[n] = OPTIONAL,
          patterns |-> recombinedPatterns(SelectSeq(accumulated, LAMBDA p : p # OPTIONAL))]

\* the callback of initial.map, lines 65-82
recombine(accumulated) ==
    IF \E n \in 1..Len(accumulated) : accumulated[n] = GLOBSTAR
    THEN [capture |-> TRUE, optional |-> FALSE, patterns |-> <<twoStar>>]
    ELSE [capture |-> Len(accumulated) > 1 \/ ~isString(accumulated[1]),
          optional |-> \E n \in 1..Len(accumulated) : accumulated[n] = OPTIONAL,
          patterns |-> recombinedPatterns(SelectSeq(accumulated, LAMBDA p : p # OPTIONAL))]

recombinePatterns(set) ==
    [at \in 1..maxLength(set) |-> recombine(accumulate(set, at, maxLength(set), Len(set)))]

\* match[1] and match[2] of pattern.match(/^(.*?)((?:\\\.[A-Za-z0-9]+)*)$/)
withoutExtension(pat) ==
    SubSeq(pat, 1, Len(pat) - extensionLength(pat, Len(pat), 0))

extensionOf(pat) ==
    SubSeq(pat, Len(pat) - extensionLength(pat, Len(pat), 0) + 1, Len(pat))

extractExtensions(fullPatterns) ==
    [patterns |-> uniq([n \in 1..Len(fullPatterns) |-> withoutExtension(fullPatterns[n])]),
     extensions |-> uniq(SelectSeq([n \in 1..Len(fullPatterns) |-> extensionOf(fullPatterns[n])],
                                   LAMBDA e : Len(e) > 0))]

mustCapture(part) == part.capture = TRUE

\* parts.findIndex(mustCapture) and findLastIndex(parts, mustCapture), counted
\* from 1; 0 when no part is captured
captureStartOf(parts) ==
    IF \E n \in 1..Len(parts) : mustCapture(parts[n])
    THEN CHOOSE n \in 1..Len(parts) :
            mustCapture(parts[n]) /\ \A o \in 1..(n - 1) : ~mustCapture(parts[o])
    ELSE 0

captureEndOf(parts) ==
    IF \E n \in 1..Len(parts) : mustCapture(parts[n])
    THEN CHOOSE n \in 1..Len(parts) :
            mustCapture(parts[n]) /\ \A o \in (n + 1)..Len(parts) : ~mustCapture(parts[o])
    ELSE 0

\* `(?:${patterns.join('|')})`
alternation(patterns) == <<"(?:">> \o join(patterns, <<"|">>) \o <<")">>

\* lines 129-135: the patterns and the extensions of the part at
extractedAt(parts, at, captureEnd) ==
    IF at = captureEnd /\ captureEnd = Len(parts)
    THEN extractExtensions(parts[at].patterns)
    ELSE [patterns |-> parts[at].patterns, extensions |-> <<>>]

\* lines 138-140
withCaptureStart(expression, at, captureStart) ==
    IF at = captureStart THEN <<"(">> \o expression ELSE expression

\* lines 141-144
withSeparator(expression, at) ==
    IF at > 1 THEN <<"/">> \o expression ELSE expression

\* lines 146-150
withOptional(expression, part) ==
    IF part.optional THEN <<"(?:">> \o expression \o <<")", "?">> ELSE expression

\* lines 152-159
withCaptureEnd(expression, at, parts, captureEnd, extensions) ==
    IF at = captureEnd
    THEN expression \o <<")">>
         \o (IF captureEnd = Len(parts) /\ Len(extensions) > 0
             THEN alternation(extensions) ELSE <<>>)
    ELSE expression

\* the callback of parts.reduce without the accumulator
partExpression(parts, at, captureStart, captureEnd, extracted) ==
    withCaptureEnd(
        withOptional(
            withSeparator(
                withCaptureStart(alternation(extracted.patterns), at, captureStart), at),
            parts[at]),
        at, parts, captureEnd, extracted.extensions)

RECURSIVE reduceParts(_, _, _, _)
reduceParts(parts, at, captureStart, captureEnd) ==
    IF at > Len(parts) THEN <<>>
    ELSE partExpression(parts, at, captureStart, captureEnd,
                        extractedAt(parts, at, captureEnd))
         \o reduceParts(parts, at + 1, captureStart, captureEnd)

recombinedExpression(parts) ==
    <<"^">> \o reduceParts(parts, 1, captureStartOf(parts), captureEndOf(parts)) \o <<"$">>

\* makeSubpathExpression of src/unnamed/part_002
makeRecombinedExpression(set) == recombinedExpression(recombinePatterns(set))

\* generateMembers of src/unnamed/part_002
generateMembersByRecombine(globObj) ==
    capturedMembers(globObj.found, makeRecombinedExpression(globObj.minimatch.set))

----------------------------------------------------------------------------
(* The inputs: the files on disk, the import sources, the specifiers *)

\* the files that may exist below the importing file's directory
FileUniverse ==
    { <<"t","/","-",".","t","x","t">>,
      <<"t","/","a",".","f","o","o",".","t","x","t">>,
      <<"t","/","c",".","c","s","v">>,
      <<"t","/","e","-","p","/","4","0","4",".","t","x","t">>,
      <<"t","/","f","o","o","-","b","a","r",".","t","x","t">>,
      <<"t","/","f","o","o","B","a","r",".","t","x","t">>,
      <<"t","/","n","/","-",".","t","x","t">>,
      <<"t","/","n","e","w",".","t","x","t">> }

GlobPrefix == <<"g","l","o","b",":">>

\* the patterns, as text
P_txt == <<".","/","t","/","*",".","t","x","t">>
P_foo_txt == <<".","/","t","/","*",".","f","o","o",".","t","x","t">>
P_brace == <<".","/","t","/","*",".","{","t","x","t",",","c","s","v","}">>
P_deep == <<".","/","t","/","*","*","/","*",".","t","x","t">>
P_sub == <<".","/","t","/","*","/","*",".","t","x","t">>
P_bare == <<"t","/","*",".","t","x","t">>
P_up == <<".",".","/","w","/","t","/","*",".","t","x","t">>
P_abs == <<"/","t","/","*",".","t","x","t">>
P_plain == <<".","/","t","/","n","e","w",".","t","x","t">>
P_empty == <<>>
\* patterns whose brace expansions differ in length or in extension
P_opt == <<".","/","t","/","{","n",",","s","/","*","}","/","f",".","t","x","t">>
P_optFirst == <<".","/","t","/","{","*",",","n","/","*","}",".","t","x","t">>
P_optStar == <<".","/","t","/","{","*","*","/",",","}","f",".","t","x","t">>
P_noExt == <<".","/","t","/","{","*",".","t","x","t",",","r","*","}">>
P_mid == <<".","/","*","/","n","/","*",".","t","x","t">>

PatternTexts == {P_txt, P_foo_txt, P_brace, P_deep, P_sub, P_bare, P_up,
                 P_abs, P_plain, P_empty}

\* new Minimatch(pattern).set: the brace expansions of the pattern, each split
\* on '/' into literal strings, GLOBSTAR and compiled RegExps
minimatchSet(text) ==
    CASE text = P_txt -> << <<Str(<<".">>), Str(<<"t">>), Re(mmStar \o <<"\\.","t","x","t">>)>> >>
      [] text = P_foo_txt -> << <<Str(<<".">>), Str(<<"t">>), Re(mmStar \o <<"\\.","f","o","o","\\.","t","x","t">>)>> >>
      [] text = P_brace -> << <<Str(<<".">>), Str(<<"t">>), Re(mmStar \o <<"\\.","t","x","t">>)>>,
                              <<Str(<<".">>), Str(<<"t">>), Re(mmStar \o <<"\\.","c","s","v">>)>> >>
      [] text = P_deep -> << <<Str(<<".">>), Str(<<"t">>), GLOBSTAR, Re(mmStar \o <<"\\.","t","x","t">>)>> >>
      [] text = P_sub -> << <<Str(<<".">>), Str(<<"t">>), Re(mmStar), Re(mmStar \o <<"\\.","t","x","t">>)>> >>
      [] text = P_bare -> << <<Str(<<"t">>), Re(mmStar \o <<"\\.","t","x","t">>)>> >>
      [] text = P_up -> << <<Str(<<".", ".">>), Str(<<"w">>), Str(<<"t">>), Re(mmStar \o <<"\\.","t","x","t">>)>> >>
      [] text = P_abs -> << <<Str(<<>>), Str(<<"t">>), Re(mmStar \o <<"\\.","t","x","t">>)>> >>
      [] text = P_plain -> << <<Str(<<".">>), Str(<<"t">>), Str(<<"n","e","w",".","t","x","t">>)>> >>
      [] text = P_opt -> << <<Str(<<".">>), Str(<<"t">>), Str(<<"n">>), Str(<<"f",".","t","x","t">>)>>,
                            <<Str(<<".">>), Str(<<"t">>), Str(<<"s">>), Re(mmStar), Str(<<"f",".","t","x","t">>)>> >>
      [] text = P_optFirst -> << <<Str(<<".">>), Str(<<"t">>), Re(mmStar \o <<"\\.","t","x","t">>)>>,
                                 <<Str(<<".">>), Str(<<"t">>), Str(<<"n">>), Re(mmStar \o <<"\\.","t","x","t">>)>> >>
      [] text = P_optStar -> << <<Str(<<".">>), Str(<<"t">>), GLOBSTAR, Str(<<"f",".","t","x","t">>)>>,
                                <<Str(<<".">>), Str(<<"t">>), Str(<<"f",".","t","x","t">>)>> >>
      [] text = P_noExt -> << <<Str(<<".">>), Str(<<"t">>), Re(mmStar \o <<"\\.","t","x","t">>)>>,
                              <<Str(<<".">>), Str(<<"t">>), Re(<<"(?=", ".", ")", "r", "[^/]", "*?">>)>> >>
      [] text = P_mid -> << <<Str(<<".">>), Re(mmStar), Str(<<"n">>), Re(mmStar \o <<"\\.","t","x","t">>)>> >>
      [] OTHER -> <<>>

Pattern(text) == [text |-> text, set |-> minimatchSet(text)]

\* the import sources: each pattern with the glob: prefix, and some without
Sources ==
    { GlobPrefix \o pt : pt \in PatternTexts } \cup {P_txt, P_bare, P_abs, P_plain}

ImportSpecifier(imported, local) ==
    [type |-> "ImportSpecifier", imported |-> imported, local |-> local]
ImportNamespaceSpecifier(local) ==
    [type |-> "ImportNamespaceSpecifier", imported |-> Null, local |-> local]
ImportDefaultSpecifier(local) ==
    [type |-> "ImportDefaultSpecifier", imported |-> Null, local |-> local]

\* the named bindings { aFoo as x } and { fooBar as y }
NamedUniverse ==
    { ImportSpecifier(<<"a", "F", "o", "o">>, <<"x">>),
      ImportSpecifier(<<"f", "o", "o", "B", "a", "r">>, <<"y">>) }

\* the specifier lists with a namespace, a default or an indexed specifier
OtherSpecifierLists ==
    { << ImportNamespaceSpecifier(<<"m">>) >>,
      << ImportDefaultSpecifier(<<"d">>) >>,
      << ImportDefaultSpecifier(<<"d">>), ImportSpecifier(<<"a", "F", "o", "o">>, <<"x">>) >>,
      << ImportDefaultSpecifier(<<"d">>), ImportNamespaceSpecifier(<<"m">>) >>,
      << ImportSpecifier(<<"t","o","S","t","r","i","n","g">>, <<"t">>) >>,
      << ImportSpecifier(<<"$", "0">>, <<"s">>) >>,
      << ImportSpecifier(<<"$", "1">>, <<"s">>) >>,
      << ImportSpecifier(<<"$", "0">>, <<"s">>), ImportSpecifier(<<"a", "F", "o", "o">>, <<"x">>) >>,
      << ImportSpecifier(<<"a", "F", "o", "o">>, <<"x">>), ImportSpecifier(<<"$", "1">>, <<"s">>) >>,
      << ImportDefaultSpecifier(<<"d">>), ImportSpecifier(<<"$", "0">>, <<"s">>) >> }

\* the sequences over S of length at most n
RECURSIVE SeqsUpTo(_, _)
SeqsUpTo(S, n) ==
    IF n = 0 THEN { <<>> }
    ELSE LET shorter == SeqsUpTo(S, n - 1)
         IN shorter \cup { Append(q, x) : q \in shorter, x \in S }

SubsetsUpTo(S, n) == { T \in SUBSET S : Cardinality(T) <= n }

SpecifierLists == SeqsUpTo(NamedUniverse, MaxSpecifiers) \cup OtherSpecifierLists

----------------------------------------------------------------------------
(* The helpers of the visitor: src/src/index.js *)

\* hasImportDefaultSpecifier, finding no default specifier
hasImportDefaultSpecifier_never(specs) == FALSE

hasImportDefaultSpecifier(specs) ==
    \E n \in 1..Len(specs) : specs[n].type = "ImportDefaultSpecifier"

\* /^\$[0-9]+$/.test(name)
isIndexName(nm) ==
    /\ nm # Null
    /\ Len(nm) >= 2
    /\ nm[1] = "$"
    /\ \A i \in 2..Len(nm) : IsDigit(nm[i])

digitValue(c) == (CHOOSE i \in 1..Len(Digits) : Digits[i] = c) - 1

\* Number(digits)
RECURSIVE Number(_)
Number(ds) ==
    IF Len(ds) = 0 THEN 0
    ELSE 10 * Number(SubSeq(ds, 1, Len(ds) - 1)) + digitValue(ds[Len(ds)])

\* indexFromImportSpecifier, looking at the first specifier only
indexFromImportSpecifier_firstOnly(specs) ==
    IF Len(specs) >= 1 /\ specs[1].type = "ImportSpecifier" /\ isIndexName(specs[1].imported)
    THEN Number(Tail(specs[1].imported))
    ELSE -1

indexFromImportSpecifier(specs) ==
    LET hits == { n \in 1..Len(specs) :
                    specs[n].type = "ImportSpecifier" /\ isIndexName(specs[n].imported) }
    IN IF hits = {} THEN -1
       ELSE LET specifier == specs[CHOOSE n \in hits : \A o \in hits : n <= o]
            IN Number(Tail(specifier.imported))

makeImport(localName, src) ==
    [type |-> "ImportDeclaration",
     specifiers |-> << [type |-> "ImportDefaultSpecifier", local |-> localName] >>,
     source |-> src]

freezeNamespaceObject(localName) ==
    [type |-> "ExpressionStatement", callee |-> "Object.freeze", argument |-> localName]

\* aliasOf, without the leading underscore
aliasOf_noUnderscore(localName, nm) == localName \o <<"_">> \o nm

\* `_${localName}_${m.name}`
aliasOf(localName, nm) == <<"_">> \o localName \o <<"_">> \o nm

makeNamespaceObject(localName, ms) ==
    [type |-> "VariableDeclaration", kind |-> "const", id |-> localName,
     properties |-> [n \in 1..Len(ms) |->
                       [key |-> ms[n].name, value |-> aliasOf(localName, ms[n].name)]]]

\* findMember, looking the name up in an object that inherits toString
findMember_inheritsNames(ms, importName) ==
    LET hits == { n \in 1..Len(ms) : ms[n].name = importName }
    IN IF hits # {} THEN ms[CHOOSE n \in hits : \A o \in hits : n <= o]
       ELSE IF importName = <<"t","o","S","t","r","i","n","g">>
       THEN [name |-> importName, file |-> <<>>, relative |-> <<>>]
       ELSE [name |-> Undefined]

\* members.find(m => m.name === importName): the first such member; undefined
\* is the record whose name is Undefined
findMember(ms, importName) ==
    LET hits == { n \in 1..Len(ms) : ms[n].name = importName }
    IN IF hits = {} THEN [name |-> Undefined]
       ELSE ms[CHOOSE n \in hits : \A o \in hits : n <= o]

\* namedReplacement, binding the imported name instead of the local one
namedReplacement_bindsImported(specifier, ms, member) ==
    IF member.name = Undefined
    THEN [threw |-> TRUE,
          error |-> <<"Could not match import '", specifier.imported,
                      "' to a module. Available members are '",
                      join([n \in 1..Len(ms) |-> ms[n].name], <<"'", ",", " ", "'">>),
                      "'">>]
    ELSE [threw |-> FALSE,
          statements |-> << makeImport(specifier.imported, member.relative) >>]

\* a named binding: the import of the member found, or the error
namedReplacement(specifier, ms, member) ==
    IF member.name = Undefined
    THEN [threw |-> TRUE,
          error |-> <<"Could not match import '", specifier.imported,
                      "' to a module. Available members are '",
                      join([n \in 1..Len(ms) |-> ms[n].name], <<"'", ",", " ", "'">>),
                      "'">>]
    ELSE [threw |-> FALSE,
          statements |-> << makeImport(specifier.local, member.relative) >>]

\* replacementOf, replacing a binding over an empty table by no statement
replacementOf_nothingForNone(specifier, ms, idx) ==
    IF Len(ms) = 0 THEN [threw |-> FALSE, statements |-> <<>>]
    ELSE IF idx < 0 /\ specifier.type = "ImportSpecifier"
    THEN namedReplacement(specifier, ms, findMember(ms, specifier.imported))
    ELSE [threw |-> FALSE,
          statements |->
              [n \in 1..Len(ms) |->
                  makeImport(aliasOf(specifier.local, ms[n].name), ms[n].relative)]
              \o << makeNamespaceObject(specifier.local, ms),
                    freezeNamespaceObject(specifier.local) >>]

\* what specifiers.map's callback returns for one specifier: a statement list,
\* or the error it throws
replacementOf(specifier, ms, idx) ==
    IF idx < 0 /\ specifier.type = "ImportSpecifier"
    THEN namedReplacement(specifier, ms, findMember(ms, specifier.imported))
    ELSE [threw |-> FALSE,
          statements |->
              [n \in 1..Len(ms) |->
                  makeImport(aliasOf(specifier.local, ms[n].name), ms[n].relative)]
              \o << makeNamespaceObject(specifier.local, ms),
                    freezeNamespaceObject(specifier.local) >>]

\* [].concat(...specifiers.map(callback)): the callback runs in specifier order
\* and the first error it throws ends the map
RECURSIVE replaceAll(_, _, _, _)
\* replaceNext, leaving out the specifier whose replacement threw
replaceNext_skipsUnmatched(specs, ms, idx, acc, r) ==
    IF r.threw THEN replaceAll(Tail(specs), ms, idx, acc)
    ELSE replaceAll(Tail(specs), ms, idx, acc \o r.statements)

replaceNext(specs, ms, idx, acc, r) ==
    IF r.threw THEN r ELSE replaceAll(Tail(specs), ms, idx, acc \o r.statements)

replaceAll(specs, ms, idx, acc) ==
    IF Len(specs) = 0 THEN [threw |-> FALSE, statements |-> acc]
    ELSE replaceNext(specs, ms, idx, acc, replacementOf(specs[1], ms, idx))

----------------------------------------------------------------------------
(* The ImportDeclaration visitor: src/src/index.js *)

Init ==
    /\ fs \in SubsetsUpTo(FileUniverse, MaxFiles)
    /\ source \in Sources
    /\ specifiers \in SpecifierLists
    /\ pc = "start"
    /\ pattern = Null
    /\ index = -1
    /\ gm = Null
    /\ members = <<>>
    /\ unique = {}
    /\ k = 0
    /\ replacement = <<>>
    /\ replaced = 0
    /\ error = Null
    /\ subpath = Null
    /\ name = Null

\* isMissing, taking no pattern for missing
isMissing_never(pat) == FALSE

\* line 160: !pattern
isMissing(pat) == Len(pat) = 0

\* isAbsolute, taking no pattern for absolute
isAbsolute_never(pat) == FALSE

\* line 164: /^\//.test(pattern)
isAbsolute(pat) == Len(pat) > 0 /\ pat[1] = "/"

\* lines 142-171: the pattern is taken from the source and validated
Validate ==
    /\ pc = "start"
    /\ LET hasPrefix == startsWith(source, GlobPrefix)
           pat == IF hasPrefix THEN SubSeq(source, Len(GlobPrefix) + 1, Len(source))
                  ELSE source
           idx == indexFromImportSpecifier(specifiers)
       IN IF ~hasPrefix /\ ~hasMagic(Pattern(pat)) THEN
              /\ pc' = "skipped"
              /\ UNCHANGED <<pattern, index, error>>
          ELSE IF hasImportDefaultSpecifier(specifiers) THEN
              /\ pc' = "error"
              /\ error' = <<"Cannot import the default member">>
              /\ pattern' = pat
              /\ UNCHANGED index
          ELSE IF isMissing(pat) THEN
              /\ pc' = "error"
              /\ error' = <<"Missing glob pattern '", pat, "'">>
              /\ pattern' = pat
              /\ UNCHANGED index
          ELSE IF isAbsolute(pat) THEN
              /\ pc' = "error"
              /\ error' = <<"Glob pattern must be relative, was '", pat, "'">>
              /\ pattern' = pat
              /\ UNCHANGED index
          ELSE IF idx >= 0 /\ Len(specifiers) > 1 THEN
              /\ pc' = "error"
              /\ error' = <<"Cannot mix indexed members">>
              /\ pattern' = pat
              /\ index' = idx
          ELSE
              /\ pc' = "glob"
              /\ pattern' = pat
              /\ index' = idx
              /\ UNCHANGED error
    /\ UNCHANGED <<fs, source, specifiers, gm, members, unique, k, replacement,
                   replaced, subpath, name>>

\* the visitor after generateMembers returned ms or threw
Generated(ms) ==
    IF ms.threw
    THEN /\ pc' = "error"
         /\ error' = TypeError
         /\ UNCHANGED <<members, k>>
    ELSE /\ pc' = "check"
         /\ members' = ms.members
         /\ k' = 1
         /\ UNCHANGED error

\* lines 173-176: the file system is globbed and the members are generated
Glob ==
    /\ pc = "glob"
    /\ gm' = GlobSync(Pattern(pattern), fs)
    /\ Generated(generateMembers(gm', index))
    /\ unique' = {}
    /\ UNCHANGED <<fs, source, specifiers, pattern, index, replacement, replaced,
                   subpath, name>>

\* CheckMember, never recording a name as seen
CheckMember_forgetsNames ==
    /\ pc = "check"
    /\ k <= Len(members)
    /\ IF members[k].name = Null THEN
           /\ pc' = "error"
           /\ error' = <<"Could not generate a valid identifier for '", members[k].file, "'">>
           /\ UNCHANGED <<unique, k>>
       ELSE
           /\ k' = k + 1
           /\ UNCHANGED <<pc, error, unique>>
    /\ UNCHANGED <<fs, source, specifiers, pattern, index, gm, members, replacement,
                   replaced, subpath, name>>

\* CheckMember, accepting a member that has no name
CheckMember_acceptsNull ==
    /\ pc = "check"
    /\ k <= Len(members)
    /\ IF members[k].name # Null /\ members[k].name \in unique THEN
           /\ pc' = "error"
           /\ error' = <<"Found colliding members '", members[k].name, "'">>
           /\ UNCHANGED <<unique, k>>
       ELSE
           /\ unique' = unique \cup {members[k].name}
           /\ k' = k + 1
           /\ UNCHANGED <<pc, error>>
    /\ UNCHANGED <<fs, source, specifiers, pattern, index, gm, members, replacement,
                   replaced, subpath, name>>

\* lines 177-186: one iteration of members.forEach
CheckMember ==
    /\ pc = "check"
    /\ k <= Len(members)
    /\ LET m == members[k]
       IN IF m.name = Null THEN
              /\ pc' = "error"
              /\ error' = <<"Could not generate a valid identifier for '", m.file, "'">>
              /\ UNCHANGED <<unique, k>>
          ELSE IF m.name \in unique THEN
              /\ pc' = "error"
              /\ error' = <<"Found colliding members '", m.name, "'">>
              /\ UNCHANGED <<unique, k>>
          ELSE
              /\ unique' = unique \cup {m.name}
              /\ k' = k + 1
              /\ UNCHANGED <<pc, error>>
    /\ UNCHANGED <<fs, source, specifiers, pattern, index, gm, members, replacement,
                   replaced, subpath, name>>

\* the visitor after specifiers.map returned r or threw
Replaced(r) ==
    IF r.threw
    THEN /\ pc' = "error"
         /\ error' = r.error
         /\ UNCHANGED <<replacement, replaced>>
    ELSE /\ pc' = "done"
         /\ replacement' = r.statements
         /\ replaced' = replaced + 1
         /\ UNCHANGED error

\* Replace, importing the members for their side effects in reverse order
Replace_reversed ==
    /\ pc = "check"
    /\ k > Len(members)
    /\ IF Len(specifiers) = 0
       THEN Replaced([threw |-> FALSE,
                      statements |-> [n \in 1..Len(members) |->
                                        [type |-> "ImportDeclaration", specifiers |-> <<>>,
                                         source |-> members[Len(members) + 1 - n].relative]]])
       ELSE Replaced(replaceAll(specifiers, members, index, <<>>))
    /\ UNCHANGED <<fs, source, specifiers, pattern, index, gm, members, unique, k,
                   subpath, name>>

\* lines 188-216: the import declaration is replaced
Replace ==
    /\ pc = "check"
    /\ k > Len(members)
    /\ IF Len(specifiers) = 0
       THEN Replaced([threw |-> FALSE,
                      statements |-> [n \in 1..Len(members) |->
                                        [type |-> "ImportDeclaration", specifiers |-> <<>>,
                                         source |-> members[n].relative]]])
       ELSE Replaced(replaceAll(specifiers, members, index, <<>>))
    /\ UNCHANGED <<fs, source, specifiers, pattern, index, gm, members, unique, k,
                   subpath, name>>

Next == Validate \/ Glob \/ CheckMember \/ Replace

Spec == Init /\ [][Next]_vars

----------------------------------------------------------------------------
(* Properties of the visitor of src/src/index.js, checked under Spec *)

\* the visitor has ended: the import was replaced or an error was thrown
Ended == pc \in {"done", "error"}

\* generateMembers returned, so members holds its result
Returned == k >= 1

\* member j has the name of an earlier member
Collides(j) ==
    members[j].name # Null /\ \E i \in 1..(j - 1) : members[i].name = members[j].name

\* the members forEach throws at, and the first of them in match order
Offending == { j \in 1..Len(members) : members[j].name = Null \/ Collides(j) }

FirstOffending == CHOOSE j \in Offending : \A o \in Offending : j <= o

CollisionError(nm) == <<"Found colliding members '", nm, "'">>

IdentifierError(file) == <<"Could not generate a valid identifier for '", file, "'">>

\* the error of the first offending member
ErrorOf(j) ==
    IF members[j].name = Null THEN IdentifierError(members[j].file)
    ELSE CollisionError(members[j].name)

C2_AsStated ==
    (Ended /\ Returned) =>
        \A j \in 1..Len(members) :
            Collides(j) =>
                /\ pc = "error"
                /\ error = CollisionError(members[j].name)
                /\ replaced = 0

\* C2 amended: when two matches derive the same identifier the visitor ends
\* with an error and without a replacement; the error is that of the first
\* offending match in match order, so it is the collision error unless a match
\* without identifier comes before the second of the colliding matches
C2_CollisionThrows ==
    (Ended /\ Returned /\ \E j \in 1..Len(members) : Collides(j)) =>
        /\ pc = "error"
        /\ replaced = 0
        /\ error = ErrorOf(FirstOffending)
        /\ (\A i \in 1..FirstOffending : members[i].name # Null)
              => error = CollisionError(members[FirstOffending].name)

C2_Witness ==
    /\ pc = "error"
    /\ Returned
    /\ Len(members) >= 2
    /\ \A i \in 1..Len(members) : members[i].name # Null
    /\ error = CollisionError(members[2].name)

\* C3 as stated: whenever some match has no identifier, the visitor ends with
\* the identifier error naming the path of such a match and without a
\* replacement
C3_AsStated ==
    (Ended /\ Returned /\ \E j \in 1..Len(members) : members[j].name = Null) =>
        /\ pc = "error"
        /\ replaced = 0
        /\ \E j \in 1..Len(members) :
              members[j].name = Null /\ error = IdentifierError(members[j].file)

\* C3 amended: when some match has no identifier the visitor ends with an
\* error and without a replacement; the error is that of the first offending
\* match in match order, so it is the identifier error naming the path of the
\* first match without identifier unless two colliding matches come before it
C3_NullIdentifierThrows ==
    (Ended /\ Returned /\ \E j \in 1..Len(members) : members[j].name = Null) =>
        /\ pc = "error"
        /\ replaced = 0
        /\ error = ErrorOf(FirstOffending)
        /\ (\A i \in 1..FirstOffending : ~Collides(i))
              => error = IdentifierError(members[FirstOffending].file)

C3_Witness ==
    /\ pc = "error"
    /\ Returned
    /\ Len(members) >= 2
    /\ members[2].name = Null
    /\ error = IdentifierError(members[2].file)

\* the subpath of a match: the match without the first p and the last s characters
Subpath(file, p, s) == SubSeq(file, p + 1, Len(file) - s)

\* the name of a member is derived from its subpath, one '$' per separator
NamedBySubpath(m, prefix, suffix) ==
    /\ startsWith(m.file, prefix)
    /\ endsWith(m.file, suffix)
    /\ Len(prefix) + Len(suffix) <= Len(m.file)
    /\ m.name = memberify(Subpath(m.file, Len(prefix), Len(suffix)))
    /\ m.name # Null =>
          Count(m.name, "$") = Count(Subpath(m.file, Len(prefix), Len(suffix)), fileSeparator)

AllNamedBySubpath(prefix, suffix) ==
    \A n \in 1..Len(members) : NamedBySubpath(members[n], prefix, suffix)

Checked == pc = "check" /\ k > Len(members)

DefaultImport(local, src) ==
    [type |-> "ImportDeclaration",
     specifiers |-> << [type |-> "ImportDefaultSpecifier", local |-> local] >>,
     source |-> src]

\* the member a named binding asks for
Named(imported) == { n \in 1..Len(members) : members[n].name = imported }

AllNamedBindingsMatch ==
    /\ index < 0
    /\ Len(specifiers) >= 1
    /\ \A n \in 1..Len(specifiers) :
          specifiers[n].type = "ImportSpecifier" /\ Named(specifiers[n].imported) # {}

\* C8: when every specifier is a named binding { X as L } that matches a
\* member, the import is replaced by exactly one default import per specifier,
\* in specifier order, binding L to the resolved path of the member named X
C8_NamedBindings ==
    [][(Checked /\ AllNamedBindingsMatch) =>
          /\ pc' = "done"
          /\ replaced' = 1
          /\ replacement' =
                [n \in 1..Len(specifiers) |->
                    DefaultImport(specifiers[n].local,
                        rp(members[CHOOSE m \in Named(specifiers[n].imported) : TRUE].file))]]_vars

C8_Witness ==
    /\ pc = "done"
    /\ index < 0
    /\ Len(specifiers) = 2
    /\ Len(members) >= 2
    /\ specifiers[1].type = "ImportSpecifier"
    /\ specifiers[2].type = "ImportSpecifier"
    /\ members[1].name = specifiers[2].imported
    /\ members[2].name = specifiers[1].imported
    /\ Len(replacement) = 2

\* the named bindings of the import that match no member
Unmatched ==
    { n \in 1..Len(specifiers) :
        specifiers[n].type = "ImportSpecifier" /\ Named(specifiers[n].imported) = {} }

FirstUnmatched == CHOOSE n \in Unmatched : \A o \in Unmatched : n <= o

\* the names of the members from n on, each but the last followed by ', '
RECURSIVE NamesFrom(_)
NamesFrom(n) ==
    IF n > Len(members) THEN <<>>
    ELSE members[n].name
         \o (IF n < Len(members) THEN <<"'", ",", " ", "'">> ELSE <<>>)
         \o NamesFrom(n + 1)

UnmatchedError(X) ==
    <<"Could not match import '", X, "' to a module. Available members are '",
      NamesFrom(1), "'">>

\* C11: in a request without index, a named binding { X as L } whose X is the
\* name of no member makes the replacement fail with "Could not match import
\* 'X' to a module. Available members are '...'", X the first such binding in
\* specifier order and the list every member name joined by "', '"; the
\* import is not replaced, and toString is such an X like any other
C11_UnmatchedBinding ==
    [][(Checked /\ index < 0 /\ Unmatched # {}) =>
          /\ pc' = "error"
          /\ error' = UnmatchedError(specifiers[FirstUnmatched].imported)
          /\ replaced' = replaced
          /\ replacement' = replacement]_vars

C11_Witness ==
    /\ pc = "error"
    /\ index < 0
    /\ Len(members) >= 2
    /\ Len(specifiers) = 1
    /\ error = UnmatchedError(<<"t","o","S","t","r","i","n","g">>)

\* a matching binding before the unmatched one
C11_WitnessSecond ==
    /\ pc = "error"
    /\ Len(specifiers) = 2
    /\ Unmatched = {2}
    /\ error = UnmatchedError(specifiers[2].imported)

OnlyNamespace ==
    Len(specifiers) = 1 /\ specifiers[1].type = "ImportNamespaceSpecifier"

\* the statements a namespace import * as L is replaced by
NamespaceStatements(L) ==
    [n \in 1..Len(members) |->
        DefaultImport(<<"_">> \o L \o <<"_">> \o members[n].name, members[n].relative)]
    \o << [type |-> "VariableDeclaration", kind |-> "const", id |-> L,
           properties |-> [n \in 1..Len(members) |->
                              [key |-> members[n].name,
                               value |-> <<"_">> \o L \o <<"_">> \o members[n].name]]],
          [type |-> "ExpressionStatement", callee |-> "Object.freeze", argument |-> L] >>

\* C9: a namespace import * as L is replaced by one default import per member
\* under the alias _L_<name>, in member order, then a const declaration of L
\* as the object of the names and their aliases, then Object.freeze(L): the
\* number of members plus two statements
C9_Namespace ==
    [][(Checked /\ OnlyNamespace) =>
          /\ pc' = "done"
          /\ replaced' = 1
          /\ Len(replacement') = Len(members) + 2
          /\ replacement' = NamespaceStatements(specifiers[1].local)]_vars

C9_Witness ==
    /\ pc = "done"
    /\ OnlyNamespace
    /\ Len(members) >= 2
    /\ Len(replacement) = Len(members) + 2

\* C10: an import without specifiers is replaced by one import without
\* specifiers per member, in member order, its source the resolved path of
\* the member
C10_SideEffectImports ==
    [][(Checked /\ specifiers = <<>>) =>
          /\ pc' = "done"
          /\ replaced' = 1
          /\ replacement' =
                [n \in 1..Len(members) |->
                    [type |-> "ImportDeclaration", specifiers |-> <<>>,
                     source |-> <<".", "/">> \o relative(cwd, resolve(cwd, members[n].file))]]]_vars

C10_Witness ==
    /\ pc = "done"
    /\ specifiers = <<>>
    /\ Len(members) >= 2
    /\ Len(replacement) = Len(members)
    /\ replacement[1].source # replacement[2].source

----------------------------------------------------------------------------
(* Properties of the validation of src/src/index.js, checked under Spec *)

\* the characters of glob's wildcard syntax
WildcardChars == {"*", "?", "[", "{"}

HasWildcard(text) == \E i \in 1..Len(text) : text[i] \in WildcardChars

HasGlobPrefix == startsWith(source, GlobPrefix)

\* the source is routed through the globbing: prefix or wildcard syntax
GlobBearing == HasGlobPrefix \/ HasWildcard(source)

\* the source without its glob: prefix
Stripped == IF HasGlobPrefix THEN SubSeq(source, Len(GlobPrefix) + 1, Len(source)) ELSE source

HasDefault == \E n \in 1..Len(specifiers) : specifiers[n].type = "ImportDefaultSpecifier"

\* the visitor has gone past its entry
Visited == pc # "start"

\* no path has been matched against the file system
NothingGlobbed == pc \notin {"glob", "check", "done"} /\ k = 0 /\ gm = Null

DefaultError == <<"Cannot import the default member">>

\* C12: every import with the glob: prefix or with wildcard syntax that has a
\* default specifier fails with 'Cannot import the default member', and none
\* is ever replaced
C12_DefaultRejected ==
    (Visited /\ GlobBearing /\ HasDefault) =>
        /\ pc = "error"
        /\ error = DefaultError
        /\ replaced = 0

C12_Witness ==
    /\ pc = "error"
    /\ source = GlobPrefix
    /\ HasDefault
    /\ error = DefaultError

\* a wildcard source without the prefix, the default specifier beside another
C12_WitnessUnprefixed ==
    /\ pc = "error"
    /\ ~HasGlobPrefix
    /\ Len(specifiers) = 2
    /\ HasDefault
    /\ error = DefaultError

\* C13: an import whose source has neither the glob: prefix nor wildcard
\* syntax is left as it is and raises no error, whatever its specifiers
C13_PlainImportUntouched ==
    ~GlobBearing =>
        /\ pc \in {"start", "skipped"}
        /\ error = Null
        /\ replaced = 0
        /\ replacement = <<>>

C13_Witness ==
    /\ pc = "skipped"
    /\ ~GlobBearing
    /\ HasDefault

MissingError == <<"Missing glob pattern '", <<>>, "'">>

\* C14: an import whose source is exactly 'glob:' and that has no default
\* specifier fails with the 'Missing glob pattern' error, and nothing is
\* matched against the file system before
C14_MissingPattern ==
    (Visited /\ source = GlobPrefix /\ ~HasDefault) =>
        /\ pc = "error"
        /\ error = MissingError
        /\ replaced = 0
        /\ NothingGlobbed

C14_Witness ==
    /\ pc = "error"
    /\ source = GlobPrefix
    /\ Len(specifiers) >= 1
    /\ ~HasDefault
    /\ error = MissingError

RelativeError(pat) == <<"Glob pattern must be relative, was '", pat, "'">>

StartsWithSlash(text) == Len(text) > 0 /\ text[1] = "/"

\* C15 as stated: every glob-bearing import whose pattern begins with '/'
\* after the prefix is stripped fails with the 'must be relative' error
C15_AsStated ==
    (Visited /\ GlobBearing /\ StartsWithSlash(Stripped)) =>
        /\ pc = "error"
        /\ error = RelativeError(Stripped)

\* C15 amended: a glob-bearing import without default specifier whose pattern
\* begins with '/' after the prefix is stripped fails with "Glob pattern must
\* be relative, was '<pattern>'", the pattern without the prefix, before
\* anything is matched against the file system; with a default specifier the
\* import fails with 'Cannot import the default member' instead
C15_AbsolutePattern ==
    (Visited /\ GlobBearing /\ StartsWithSlash(Stripped)) =>
        /\ pc = "error"
        /\ replaced = 0
        /\ NothingGlobbed
        /\ error = IF HasDefault THEN DefaultError ELSE RelativeError(Stripped)

C15_Witness ==
    /\ pc = "error"
    /\ HasGlobPrefix
    /\ StartsWithSlash(Stripped)
    /\ ~HasDefault
    /\ error = RelativeError(Stripped)

\* C16: an import without default specifier whose source has wildcard syntax,
\* no glob: prefix and no '.' at its start fails with "Glob pattern must be
\* relative, was '<pattern>'"
C16_UnprefixedMustStartWithDot ==
    (Visited /\ ~HasGlobPrefix /\ HasWildcard(source) /\ ~startsWith(source, <<".">>)
       /\ ~HasDefault) =>
        /\ pc = "error"
        /\ error = RelativeError(source)

\* an indexed specifier: a named binding of $ and digits
IsIndexed(specifier) ==
    /\ specifier.type = "ImportSpecifier"
    /\ Len(specifier.imported) >= 2
    /\ specifier.imported[1] = "$"
    /\ \A i \in 2..Len(specifier.imported) : specifier.imported[i] \in Range(Digits)

HasIndexed == \E n \in 1..Len(specifiers) : IsIndexed(specifiers[n])

\* an indexed specifier beside another specifier
Mixed == HasIndexed /\ Len(specifiers) > 1

\* the pattern passed validation: it is, or was, handed to the file system
\* matching
Globbed == pc \in {"glob", "check", "done"} \/ k >= 1 \/ error = TypeError

\* what generateMembers returns for the pattern with './' written before it
WithDotSlash == generateMembers(GlobSync(Pattern(<<".", "/">> \o pattern), fs), index)

\* the members are those of other, their files without the './'
SameMembers(other) ==
    /\ ~other.threw
    /\ Len(other.members) = Len(members)
    /\ \A n \in 1..Len(members) :
          /\ other.members[n].file = <<".", "/">> \o members[n].file
          /\ other.members[n].relative = members[n].relative
          /\ other.members[n].name = members[n].name
          /\ members[n].relative = <<".", "/">> \o members[n].file

MixError == <<"Cannot mix indexed members">>

\* C18 as stated: every glob-bearing import with an indexed specifier beside
\* another specifier fails with 'Cannot mix indexed members' before the file
\* system is globbed
C18_AsStated ==
    (Visited /\ GlobBearing /\ Mixed) =>
        /\ pc = "error"
        /\ error = MixError
        /\ NothingGlobbed

\* C18 amended: a glob-bearing import with an indexed specifier $N beside
\* another specifier fails before the file system is globbed; the error is
\* 'Cannot mix indexed members' unless an earlier test of the validation
\* fails: a default specifier, a missing pattern or a pattern that begins
\* with '/' give their own errors
C18_MixedIndexRejected ==
    (Visited /\ GlobBearing /\ Mixed) =>
        /\ pc = "error"
        /\ replaced = 0
        /\ NothingGlobbed
        /\ error = IF HasDefault THEN DefaultError
                   ELSE IF Stripped = <<>> THEN MissingError
                   ELSE IF StartsWithSlash(Stripped) THEN RelativeError(Stripped)
                   ELSE MixError

C18_Witness ==
    /\ pc = "error"
    /\ Len(specifiers) = 2
    /\ IsIndexed(specifiers[2])
    /\ error = MixError

(* Indexed requests { $N as L }. The dynamic segments are read off the    *)
(* pattern text, and a capture off the path of the match, without the     *)
(* expression generateMembers builds                                      *)

OnlyIndexed == Len(specifiers) = 1 /\ IsIndexed(specifiers[1])

\* the segments of the pattern; a segment with a wildcard is dynamic
Segments == split(Stripped, "/")

IsDynamic(seg) == \E i \in 1..Len(seg) : seg[i] \in WildcardChars

DynamicCount == Cardinality({ n \in 1..Len(Segments) : IsDynamic(Segments[n]) })

\* the position among the segments of dynamic segment N, counted from 0
DynamicAt(N) ==
    CHOOSE n \in 1..Len(Segments) :
        /\ IsDynamic(Segments[n])
        /\ Cardinality({ m \in 1..(n - 1) : IsDynamic(Segments[m]) }) = N

\* the text the segment at position j stands for in the path with the
\* components comps: '**' stands for every component the other segments leave
SegmentText(comps, j) ==
    IF Segments[j] = <<"*", "*">>
    THEN join(SubSeq(comps, j, Len(comps) - (Len(Segments) - j)), <<"/">>)
    ELSE IF \E m \in 1..(j - 1) : Segments[m] = <<"*", "*">>
    THEN comps[Len(comps) - (Len(Segments) - j)]
    ELSE comps[j]

MemberFiles == [n \in 1..Len(members) |-> members[n].file]

\* the identifier of the match file by dynamic segment N: the extension all
\* matches share is cut when the segment is the file name
IndexedNameAt(file, j, cut) == memberify(slice(SegmentText(split(file, "/"), j), 0, cut))

IndexedName(file, N) ==
    IndexedNameAt(file, DynamicAt(N),
                  IF DynamicAt(N) = Len(Segments)
                  THEN Len(SegmentText(split(file, "/"), DynamicAt(N)))
                       - Len(commonExtname(MemberFiles))
                  ELSE Len(file))

\* generateMembers has run
Generating == pc \in {"check", "done"} \/ k >= 1 \/ error = TypeError

\* C19: with the single specifier { $N as L }, N a dynamic segment of the
\* pattern, the identifier of every member is made of the text dynamic segment
\* N (counted from 0, left to right) matched in its path, not of the joined
\* subpath, and the import is replaced by the statements of a frozen namespace
\* object named L
C19_IndexedMembers ==
    (OnlyIndexed /\ Returned /\ index < DynamicCount) =>
        /\ \A n \in 1..Len(members) :
              members[n].name = IndexedName(members[n].file, index)
        /\ pc = "done" =>
              /\ replaced = 1
              /\ replacement = NamespaceStatements(specifiers[1].local)

C19_Witness ==
    /\ pc = "done"
    /\ OnlyIndexed
    /\ index = 0
    /\ DynamicCount = 2
    /\ Len(members) >= 2
    /\ \A n \in 1..Len(members) :
          members[n].name # memberify(slice(members[n].file, 4, Len(members[n].file) - 4))

C19_WitnessSecond ==
    /\ pc = "done"
    /\ OnlyIndexed
    /\ index = 1
    /\ DynamicCount = 2
    /\ Len(members) >= 1

\* the outcome of generateMembers for the request of the last dynamic segment
LastIndexOutcome(last) == generateMembers(GlobSync(Pattern(pattern), fs), last)

SameOutcome(r) ==
    /\ (error = TypeError) <=> r.threw
    /\ Returned => members = r.members

C21_MissingIndexThrows ==
    (OnlyIndexed /\ Ended /\ Returned /\ DynamicCount >= 1 /\ index >= DynamicCount
        /\ Len(gm.found) >= 1) =>
        /\ pc = "error"
        /\ error = IdentifierError(gm.found[1])

\* the index generateMembers works with
ClampedIndex == IF index >= DynamicCount THEN DynamicCount - 1 ELSE index

\* the extension written at the end of the last segment of the pattern: its
\* longest suffix of dot-prefixed literal groups
ExtensionStarts ==
    { i \in 1..Len(Segments[Len(Segments)]) :
        /\ Segments[Len(Segments)][i] = "."
        /\ \A j \in i..Len(Segments[Len(Segments)]) :
              \/ Segments[Len(Segments)][j] = "."
              \/ Segments[Len(Segments)][j] \in Range(Lower) \cup Range(Upper)
              \/ IsDigit(Segments[Len(Segments)][j]) }

PatternExtension ==
    IF ExtensionStarts = {} THEN <<>>
    ELSE SubSeq(Segments[Len(Segments)],
                CHOOSE i \in ExtensionStarts : \A o \in ExtensionStarts : i <= o,
                Len(Segments[Len(Segments)]))

\* the identifier of the match file by the segment at position j, ext cut
\* off the text when the segment is the file name
NameWithout(file, j, ext) ==
    IF j = Len(Segments)
    THEN memberify(slice(SegmentText(split(file, "/"), j), 0,
                         Len(SegmentText(split(file, "/"), j)) - Len(ext)))
    ELSE memberify(SegmentText(split(file, "/"), j))

\* C22 as stated: the extension cut off the capture of the file name is the
\* extension of the pattern
C22_AsStated ==
    (OnlyIndexed /\ Returned /\ DynamicCount >= 1) =>
        \A n \in 1..Len(members) :
            members[n].name
                = NameWithout(members[n].file, DynamicAt(ClampedIndex), PatternExtension)

\* C22 amended: when the clamped index selects the dynamic segment of the file
\* name, the (compound) extension all matches share, which can be longer than
\* the extension written in the pattern, is cut off that capture before the
\* identifier is made; when it selects another segment, or the last segment
\* of the pattern is literal, the capture is used whole
C22_SharedExtensionCut ==
    (OnlyIndexed /\ Returned /\ DynamicCount >= 1) =>
        \A n \in 1..Len(members) :
            members[n].name
                = NameWithout(members[n].file, DynamicAt(ClampedIndex),
                              commonExtname(MemberFiles))

\* the file name is selected, and the matches share more than the pattern says
C22_Witness ==
    /\ pc = "done"
    /\ OnlyIndexed
    /\ DynamicCount >= 1
    /\ DynamicAt(ClampedIndex) = Len(Segments)
    /\ Len(members) >= 1
    /\ Len(commonExtname(MemberFiles)) > Len(PatternExtension)

\* a directory is selected and nothing is cut
C22_WitnessWhole ==
    /\ pc = "done"
    /\ OnlyIndexed
    /\ DynamicCount = 2
    /\ ClampedIndex = 0
    /\ Len(members) >= 1
    /\ Len(commonExtname(MemberFiles)) > 0

\* the ways the found list writes the file F of the importing directory
Denotes(file, F) ==
    \/ file = F
    \/ file = <<".", "/">> \o F
    \/ file = <<".", ".", "/", "w", "/">> \o F

\* C23: the resolved path of every member is './' followed by the path of the
\* matched file from the importing file's directory, however the pattern
\* (and so the found list) writes that file
C23_ResolvedPaths ==
    Returned =>
        \A n \in 1..Len(members) :
            /\ startsWith(members[n].relative, <<".", "/">>)
            /\ \E F \in fs :
                  /\ Denotes(members[n].file, F)
                  /\ members[n].relative = <<".", "/">> \o F

C23_Witness ==
    /\ pc = "done"
    /\ startsWith(Stripped, <<".", ".", "/">>)
    /\ Len(members) >= 2
    /\ \A n \in 1..Len(members) :
          /\ startsWith(members[n].file, <<".", ".", "/", "w", "/">>)
          /\ members[n].relative = <<".", "/">> \o SubSeq(members[n].file, 6, Len(members[n].file))

\* every requested binding { X as L } of an unindexed request has a member
BindingsResolved ==
    index < 0 =>
        \A n \in 1..Len(specifiers) :
            specifiers[n].type = "ImportSpecifier" => Named(specifiers[n].imported) # {}

\* C24: the import is replaced at most once, and only when no error was
\* thrown, every member has passed the null and the uniqueness test and every
\* requested binding has a member; after an error the import is not replaced
\* and no statement of a replacement exists
C24_Atomic ==
    /\ replaced <= 1
    /\ replaced = 1 =>
          /\ pc = "done"
          /\ error = Null
          /\ k = Len(members) + 1
          /\ \A n \in 1..Len(members) : members[n].name # Null
          /\ \A n, o \in 1..Len(members) : members[n].name = members[o].name => n = o
          /\ BindingsResolved
    /\ (pc = "error" \/ replaced = 0) => (replaced = 0 /\ replacement = <<>>)

\* the second binding is unresolved after the first was resolved
C24_Witness ==
    /\ pc = "error"
    /\ k = Len(members) + 1
    /\ Len(specifiers) = 2
    /\ index < 0
    /\ Named(specifiers[1].imported) # {}
    /\ Named(specifiers[2].imported) = {}
    /\ replaced = 0
    /\ replacement = <<>>

\* the captures of a match under the expression generateMembers builds from
\* the first expansion of the pattern; Null when the path is not matched
FirstExpansionMatch(g, file) ==
    match(file, indexedRegExp(g.minimatch.set[1], g.minimatch.options),
          g.minimatch.options.nocase)

\* C29: in a request { $N as L } over a pattern with more than one expansion,
\* the expression of the first expansion matches every path the glob returned
\* and has a capture at the selected index, so reading the capture throws no
\* TypeError
C29_FirstExpansionMatches ==
    (OnlyIndexed /\ Generating /\ Len(gm.minimatch.set) > 1) =>
        /\ error # TypeError
        /\ \A n \in 1..Len(gm.found) :
              /\ FirstExpansionMatch(gm, gm.found[n]) # Null
              /\ matchAt(gm.found[n], FirstExpansionMatch(gm, gm.found[n]),
                         ClampedIndex + 1) # Undefined

\* the glob returned no match
NoMatches == Generating /\ Len(gm.found) = 0

\* the frozen object without properties a binding to the local name L is
\* replaced by
EmptyNamespace(L) ==
    << [type |-> "VariableDeclaration", kind |-> "const", id |-> L, properties |-> <<>>],
       [type |-> "ExpressionStatement", callee |-> "Object.freeze", argument |-> L] >>

\* C30: when the glob returns no match, generateMembers throws nothing and
\* there is no member; an import without specifiers is replaced by no
\* statement, a namespace import * as L (and an indexed request { $N as L })
\* by the declaration of an object without properties and its
\* Object.freeze, with no member import, and a request of named bindings
\* fails with "Could not match import 'X' to a module. Available members are
\* ''", X its first binding, whatever the names, and replaces nothing
C30_NoMatches ==
    NoMatches =>
        /\ error # TypeError
        /\ members = <<>>
        /\ Ended =>
              IF Len(specifiers) = 0
              THEN pc = "done" /\ replaced = 1 /\ replacement = <<>>
              ELSE IF index < 0 /\ specifiers[1].type = "ImportSpecifier"
              THEN /\ pc = "error"
                   /\ replaced = 0
                   /\ error = <<"Could not match import '", specifiers[1].imported,
                                "' to a module. Available members are '", <<>>, "'">>
              ELSE /\ pc = "done"
                   /\ replaced = 1
                   /\ replacement = EmptyNamespace(specifiers[1].local)

\* an import without specifiers over no match was replaced by no statement
C30_Witness ==
    /\ NoMatches
    /\ pc = "done"
    /\ Len(specifiers) = 0
    /\ replacement = <<>>
    /\ replaced = 1

\* a namespace import over no match
C30_WitnessNamespace ==
    /\ NoMatches
    /\ pc = "done"
    /\ Len(specifiers) = 1
    /\ specifiers[1].type = "ImportNamespaceSpecifier"
    /\ replacement = EmptyNamespace(specifiers[1].local)

\* two named bindings over no match
C30_WitnessNamed ==
    /\ NoMatches
    /\ pc = "error"
    /\ Len(specifiers) = 2
    /\ index < 0
    /\ replaced = 0

----------------------------------------------------------------------------
(* The ImportDeclaration visitor of src/index.js, the capture-based plugin. *)
(* Its lines 204-243, the uniqueness loop and the replacement, are the      *)
(* statements of CheckMember and Replace for a request without index.       *)

CaptureSpecifierLists ==
    { <<>>,
      << ImportNamespaceSpecifier(<<"m">>) >>,
      << ImportDefaultSpecifier(<<"d">>) >>,
      << ImportSpecifier(<<"a">>, <<"x">>) >>,
      << ImportSpecifier(<<"a", "F", "o", "o">>, <<"x">>) >> }

InitCapture ==
    /\ fs \in SubsetsUpTo(FileUniverse, MaxFiles)
    /\ source \in Sources
    /\ specifiers \in CaptureSpecifierLists
    /\ pc = "start"
    /\ pattern = Null
    /\ index = -1
    /\ gm = Null
    /\ members = <<>>
    /\ unique = {}
    /\ k = 0
    /\ replacement = <<>>
    /\ replaced = 0
    /\ error = Null
    /\ subpath = Null
    /\ name = Null

\* the source without its glob: prefix
withoutGlobPrefix(src) ==
    IF startsWith(src, GlobPrefix) THEN SubSeq(src, Len(GlobPrefix) + 1, Len(src)) ELSE src

\* lines 176-199: the pattern is taken from the source and validated
CaptureValidate ==
    /\ pc = "start"
    /\ IF ~hasMagic(Pattern(withoutGlobPrefix(source))) THEN
           IF startsWith(source, GlobPrefix) THEN
               /\ pc' = "error"
               /\ error' = <<"Missing glob pattern '", source, "'">>
               /\ pattern' = source
           ELSE
               /\ pc' = "skipped"
               /\ UNCHANGED <<pattern, error>>
       ELSE IF hasImportDefaultSpecifier(specifiers) THEN
           /\ pc' = "error"
           /\ error' = <<"Cannot import the default member">>
           /\ pattern' = withoutGlobPrefix(source)
       ELSE IF ~startsWith(withoutGlobPrefix(source), <<".">>) THEN
           /\ pc' = "error"
           /\ error' = <<"Glob pattern must be relative, was '", withoutGlobPrefix(source), "'">>
           /\ pattern' = withoutGlobPrefix(source)
       ELSE
           /\ pc' = "glob"
           /\ pattern' = withoutGlobPrefix(source)
           /\ UNCHANGED error
    /\ UNCHANGED <<fs, source, specifiers, index, gm, members, unique, k, replacement,
                   replaced, subpath, name>>

\* lines 201-204: the file system is globbed and the members are generated
CaptureGlob ==
    /\ pc = "glob"
    /\ gm' = GlobSync(Pattern(pattern), fs)
    /\ Generated(generateMembersByCapture(gm'))
    /\ unique' = {}
    /\ UNCHANGED <<fs, source, specifiers, pattern, index, replacement, replaced,
                   subpath, name>>

NextCapture == CaptureValidate \/ CaptureGlob \/ CheckMember \/ Replace

SpecCapture == InitCapture /\ [][NextCapture]_vars

\* the last component of a path
Basename(file) == split(file, "/")[Len(split(file, "/"))]

\* the literal extensions written in the last segment of the pattern
WrittenExtensions(text) ==
    CASE text = P_txt -> { <<".","t","x","t">> }
      [] text = P_up -> { <<".","t","x","t">> }
      [] text = P_foo_txt -> { <<".","f","o","o",".","t","x","t">> }
      [] text = P_brace -> { <<".","t","x","t">>, <<".","c","s","v">> }

\* the base name of the match without the written extension it ends with
StemOf(file, text) ==
    LET base == Basename(file)
        ext == CHOOSE e \in WrittenExtensions(text) : endsWith(base, e)
    IN SubSeq(base, 1, Len(base) - Len(ext))

\* the member of file, when there is one
MemberOf(file) == { n \in 1..Len(members) : members[n].file = file }

NameOf(file) == members[CHOOSE n \in MemberOf(file) : TRUE].name

A_FOO_TXT == <<".","/","t","/","a",".","f","o","o",".","t","x","t">>
C_CSV == <<".","/","t","/","c",".","c","s","v">>

\* C4: the extension written in the pattern's last segment is matched outside
\* the capture and never shows in the identifier, while the dotted parts of
\* the name the pattern does not write stay in it: a.foo.txt is aFoo under
\* *.txt and a under *.foo.txt, and under *.{txt,csv} each alternative is
\* stripped likewise, whatever the other matches are
C4_WrittenExtensionStripped ==
    (Returned /\ pattern \in {P_txt, P_up, P_foo_txt, P_brace}) =>
        /\ \A n \in 1..Len(members) :
              members[n].name = memberify(StemOf(members[n].file, pattern))
        /\ (pattern \in {P_txt, P_brace} /\ MemberOf(A_FOO_TXT) # {})
              => NameOf(A_FOO_TXT) = <<"a","F","o","o">>
        /\ (pattern = P_foo_txt /\ MemberOf(A_FOO_TXT) # {})
              => NameOf(A_FOO_TXT) = <<"a">>
        /\ (pattern = P_brace /\ MemberOf(C_CSV) # {}) => NameOf(C_CSV) = <<"c">>

C4_Witness ==
    /\ pc = "done"
    /\ pattern = P_brace
    /\ Len(members) = 2
    /\ members[1].file = A_FOO_TXT
    /\ members[1].name = <<"a","F","o","o">>
    /\ members[2].name = <<"c">>

----------------------------------------------------------------------------
(* The ImportDeclaration visitor of src/unnamed/part_002, the recombining  *)
(* plugin. Its visitor, lines 232-303, is the visitor of src/index.js      *)
(* statement by statement; only generateMembers differs.                   *)

\* the files below the importing file's directory
RecombineFiles ==
    { <<"t","/","a",".","t","x","t">>,
      <<"t","/","f",".","t","x","t">>,
      <<"t","/","n","/","b",".","t","x","t">>,
      <<"t","/","n","/","f",".","t","x","t">>,
      <<"t","/","r","d">>,
      <<"t","/","s","/","u","/","f",".","t","x","t">> }

RecombineSources == {P_txt, P_brace, P_deep, P_mid, P_opt, P_optFirst, P_optStar, P_noExt}

RecombineSpecifierLists ==
    { <<>>,
      << ImportNamespaceSpecifier(<<"m">>) >>,
      << ImportDefaultSpecifier(<<"d">>) >> }

InitRecombine ==
    /\ fs \in SubsetsUpTo(RecombineFiles, MaxFiles)
    /\ source \in RecombineSources
    /\ specifiers \in RecombineSpecifierLists
    /\ pc = "start"
    /\ pattern = Null
    /\ index = -1
    /\ gm = Null
    /\ members = <<>>
    /\ unique = {}
    /\ k = 0
    /\ replacement = <<>>
    /\ replaced = 0
    /\ error = Null
    /\ subpath = Null
    /\ name = Null

\* lines 257-260: the file system is globbed and the members are generated
RecombineGlob ==
    /\ pc = "glob"
    /\ gm' = GlobSync(Pattern(pattern), fs)
    /\ Generated(generateMembersByRecombine(gm'))
    /\ unique' = {}
    /\ UNCHANGED <<fs, source, specifiers, pattern, index, replacement, replaced,
                   subpath, name>>

NextRecombine == CaptureValidate \/ RecombineGlob \/ CheckMember \/ Replace

SpecRecombine == InitRecombine /\ [][NextRecombine]_vars

(* Properties of the compiled expression, checked under SpecRecombine. The *)
(* positions are read off the minimatch set of the pattern: the last       *)
(* segment of every expansion stands at the last position                  *)

Expansions == minimatchSet(pattern)

Longest ==
    CHOOSE m \in { Len(Expansions[n]) : n \in 1..Len(Expansions) } :
        \A n \in 1..Len(Expansions) : Len(Expansions[n]) <= m

Absent == [type |-> "absent"]

\* the segment expansion n supplies at the position at
Aligned(n, at) ==
    IF at = Longest THEN Expansions[n][Len(Expansions[n])]
    ELSE IF at < Len(Expansions[n]) THEN Expansions[n][at]
    ELSE Absent

Lacks(at) == \E n \in 1..Len(Expansions) : Aligned(n, at) = Absent

HasGlobstar(at) == \E n \in 1..Len(Expansions) : Aligned(n, at) = GLOBSTAR

\* every expansion supplies the same literal string at the position
SameLiteral(at) ==
    \A n \in 1..Len(Expansions) :
        isString(Aligned(n, at)) /\ Aligned(n, at) = Aligned(1, at)

Parts == recombinePatterns(Expansions)

Expression == makeRecombinedExpression(Expansions)

C26_WitnessGlobstar ==
    /\ Generating
    /\ \E at \in 1..Longest : Lacks(at) /\ HasGlobstar(at)

\* match[1] of the match of file against the expression
CaptureOf(file, expr) == firstCapture(file, match(file, expr, TRUE))

FirstDynamic ==
    CHOOSE at \in 1..Longest : ~SameLiteral(at) /\ \A o \in 1..(at - 1) : SameLiteral(o)

LastDynamic ==
    CHOOSE at \in 1..Longest : ~SameLiteral(at) /\ \A o \in (at + 1)..Longest : SameLiteral(o)

\* the fixed segments before the first and after the last dynamic position,
\* with their separators
Lead ==
    IF FirstDynamic = 1 THEN <<>>
    ELSE join([at \in 1..(FirstDynamic - 1) |-> Aligned(1, at).value], <<"/">>) \o <<"/">>

Trail ==
    IF LastDynamic = Longest THEN <<>>
    ELSE <<"/">> \o join([i \in 1..(Longest - LastDynamic) |->
                             Aligned(1, LastDynamic + i).value], <<"/">>)

\* the characters of an expression of literal characters
Unescaped(expr) ==
    [i \in 1..Len(expr) |->
        IF expr[i] \in EscapeTokens
        THEN CHOOSE c \in EscapedChars : escapeToken(c) = expr[i]
        ELSE expr[i]]

\* the extension the alternative of expansion n writes at the last position
WrittenExtension(n) ==
    IF isString(Aligned(n, Longest))
    THEN Unescaped(extensionOf(escapeStringRegexp(Aligned(n, Longest).value)))
    ELSE IF Aligned(n, Longest) = GLOBSTAR THEN <<>>
    ELSE Unescaped(extensionOf(slice(Aligned(n, Longest).source, 1, -1)))

ExtensionsOfLast ==
    IF LastDynamic = Longest
    THEN { WrittenExtension(n) : n \in 1..Len(Expansions) }
    ELSE { <<>> }

\* the capture c is the text of file between the fixed segments
SpansDynamic(file, c) ==
    \E ext \in ExtensionsOfLast : file = Lead \o c \o ext \o Trail

\* C25: the compiled expression has exactly one capture group, and in every
\* match it holds the text from the first to the last dynamic position, the
\* fixed segments between them included: the fixed segments and separators
\* before and after it, and the written extension, are matched outside it
C25_OneCaptureSpan ==
    Generating =>
        /\ groupCount(Expression) = 1
        /\ \A n \in 1..Len(gm.found) :
              CaptureOf(gm.found[n], Expression) # TypeError =>
                  SpansDynamic(gm.found[n], CaptureOf(gm.found[n], Expression))

DifferentLengths ==
    \E n, o \in 1..Len(Expansions) : Len(Expansions[n]) # Len(Expansions[o])

\* C27: when the expansions of the pattern differ in length, every path the
\* glob found, of a shorter or of a longer expansion, is matched by the
\* compiled expression, and the capture group takes part in the match
C27_OptionalPositions ==
    (Generating /\ DifferentLengths) =>
        \A n \in 1..Len(gm.found) :
            /\ CaptureOf(gm.found[n], Expression) # TypeError
            /\ CaptureOf(gm.found[n], Expression) # Undefined

\* the capture reaches the last position, and of the alternatives there one
\* writes an extension and another none
MixedExtensions ==
    /\ LastDynamic = Longest
    /\ \E n, o \in 1..Len(Expansions) :
          WrittenExtension(n) = <<>> /\ WrittenExtension(o) # <<>>

\* C28: when the alternatives of the last position differ in whether they end
\* in a literal extension, every path the glob found is matched by the
\* compiled expression, so no capture of a null match is read
C28_ExtensionlessMatched ==
    (Generating /\ MixedExtensions) =>
        /\ error # TypeError
        /\ \A n \in 1..Len(gm.found) : test(gm.found[n], Expression, TRUE)

----------------------------------------------------------------------------
(* memberify on its own: the subpath is drawn from the paths of at most    *)
(* MaxPieces pieces                                                        *)

PieceUniverse ==
    { <<"n","e","w">>,
      <<"4","0","4">>,
      <<"b","l","o","g">>,
      <<"e","-","p">>,
      <<"-">>,
      <<>>,
      <<"a",".","f","o","o">>,
      <<"i","n">>,
      <<"4","x">> }

SubpathUniverse ==
    { join(ps, <<fileSeparator>>) : ps \in SeqsUpTo(PieceUniverse, MaxPieces) \ { <<>> } }

InitMemberify ==
    /\ subpath \in SubpathUniverse
    /\ name = Undefined
    /\ pc = "memberify"
    /\ fs = {}
    /\ source = <<>>
    /\ specifiers = <<>>
    /\ pattern = Null
    /\ index = -1
    /\ gm = Null
    /\ members = <<>>
    /\ unique = {}
    /\ k = 0
    /\ replacement = <<>>
    /\ replaced = 0
    /\ error = Null

Memberify ==
    /\ pc = "memberify"
    /\ name' = memberify(subpath)
    /\ pc' = "returned"
    /\ UNCHANGED <<fs, source, specifiers, pattern, index, gm, members, unique, k,
                   replacement, replaced, error, subpath>>

NextMemberify == Memberify

SpecMemberify == InitMemberify /\ [][NextMemberify]_vars

\* the pieces of the subpath memberify was called with
Pieces == split(subpath, fileSeparator)

\* the rewritten piece n before any prefixing
Rewritten(n) == identifierfy(Pieces[n], FALSE, FALSE)

\* the identifier of piece n: rewritten id r, with the underscore the rules
\* of memberify give it
Prefixed(n, r) ==
    IF r = Null THEN Null
    ELSE IF Len(Pieces) = 1 /\ isReservedWord(r) THEN <<"_">> \o r
    ELSE IF n = 1 /\ ~IsIdentifierStart(r[1]) THEN <<"_">> \o r
    ELSE r

PrefixedIds == [n \in 1..Len(Pieces) |-> Prefixed(n, Rewritten(n))]

\* C5: memberify prefixes a reserved word with '_' only when the subpath has
\* exactly one piece and a piece with an invalid leading character only when
\* it is the first piece: new gives _new, 404 gives _404, blog/new gives
\* blog$new, e-p/404 gives eP$404, and no identifier is a bare reserved word
C5_PrefixRules ==
    pc = "returned" =>
        /\ name # Null => name = join(PrefixedIds, <<"$">>)
        /\ ~isReservedWord(name)
        /\ subpath = <<"n","e","w">> => name = <<"_","n","e","w">>
        /\ subpath = <<"4","0","4">> => name = <<"_","4","0","4">>
        /\ subpath = <<"b","l","o","g","/","n","e","w">>
              => name = <<"b","l","o","g","$","n","e","w">>
        /\ subpath = <<"e","-","p","/","4","0","4">> => name = <<"e","P","$","4","0","4">>

C5_Witness ==
    /\ pc = "returned"
    /\ Len(Pieces) = 2
    /\ isReservedWord(Pieces[2])
    /\ Len(Pieces[1]) > 0
    /\ IsDigit(Pieces[1][1])
    /\ name = <<"_">> \o Pieces[1] \o <<"$">> \o Pieces[2]

\* the identifiers memberify asks identifierfy for, piece by piece
Ids == [n \in 1..Len(Pieces) |-> identifierfy(Pieces[n], Len(Pieces) = 1, n = 1)]

\* C6: memberify returns null exactly when some piece has a null identifier;
\* otherwise it returns the identifiers of the pieces joined with '$', in
\* piece order, one '$'-separated part per piece
C6_NullOrJoined ==
    pc = "returned" =>
        /\ name = Null <=> \E n \in 1..Len(Pieces) : Ids[n] = Null
        /\ name # Null =>
              /\ name = join(Ids, <<"$">>)
              /\ split(name, "$") = Ids

C6_Witness ==
    /\ pc = "returned"
    /\ Len(Pieces) = 2
    /\ Ids[1] # Null
    /\ Ids[2] = Null
    /\ name = Null

\* a subpath of two pieces that both have identifiers
C6_WitnessJoined ==
    /\ pc = "returned"
    /\ Len(Pieces) = 2
    /\ name # Null
    /\ Count(name, "$") = 1

====
